---- MODULE Spec2Model ----
(***************************************************************************)
(* A model of kb_builder's KeyboardCase (src/src/kb_builder/builder.py):   *)
(* the layout parser, the plate cursor bookkeeping, the sandwich screw     *)
(* hole layout and the switch / stabiliser cutout templates.               *)
(*                                                                         *)
(* Numbers.  Every length is an integer count of 1e-5 mm, so the source's  *)
(* decimal constants are written shifted by five places (7.8 is 780000,    *)
(* 19.05 is 1905000, 42.8625 is 4286250) and all the halvings the code     *)
(* makes are exact.  Key sizes and key offsets (w, h, x, y) are integer    *)
(* counts of a quarter key unit (w = 1 is 4, w = 2.75 is 11, w = 6.25 is   *)
(* 25), so  key['w'] * key_spacing / 2  is  w * key_spacing \div 8.        *)
(* Arithmetic is exact: floating point rounding is not modelled.           *)
(*                                                                         *)
(* The plate.  cadquery's Workplane is outside the repository; it is       *)
(* modelled by what the code uses of it: a box, a working point that every *)
(* center(x, y) call moves relatively (also a call whose returned object   *)
(* is dropped: the plane is shared by the objects of one chain), profiles  *)
(* that polyline / circle / rect draw at the working point and that        *)
(* cutThruAll commits, and hole(), which cuts at once.                     *)
(***************************************************************************)
EXTENDS Integers, Sequences, FiniteSets, TLC

VARIABLES
    pc,               \* where the program is: "new" (in __init__, before
                      \* parse_layout), "idle" (between calls), "keys" (in the
                      \* key loop of create_switch_layer), "holes" (in
                      \* layout_sandwich_holes), "placing" (in its loop),
                      \* "placed" (layout_sandwich_holes has returned)
    frame,            \* the local variables of the function pc is in
    log,              \* the warnings and errors logged so far, in order
    keyboard_layout,  \* self.keyboard_layout: the rows handed to __init__
    layout,           \* self.layout: the normalized rows of keys
    case_type,        \* self.case_type
    corner_type,      \* self.corner_type
    corners,          \* self.corners
    feet,             \* self.feet
    kerf,             \* self.kerf
    key_spacing,      \* self.key_spacing
    screw,            \* self.screw
    layer_screw,      \* self.layer_screw
    stab_type,        \* self.stab_type
    switch_type,      \* self.switch_type
    x_pad,            \* self.x_pad
    x_pcb_pad,        \* self.x_pcb_pad
    y_pad,            \* self.y_pad
    y_pcb_pad,        \* self.y_pcb_pad
    layers,           \* self.layers
    grow_x,           \* self.grow_x
    grow_y,           \* self.grow_y
    width,            \* self.width
    height,           \* self.height
    inside_width,     \* self.inside_width
    inside_height,    \* self.inside_height
    horizontal_edge,  \* self.horizontal_edge
    vertical_edge,    \* self.vertical_edge
    plate,            \* self.plate
    origin,           \* self.origin
    x_off,            \* self.x_off
    x_holes,          \* self.x_holes
    y_holes,          \* self.y_holes
    built,            \* history: the plates the finished layer builds returned,
                      \* each with the layer asked for and self.kerf at the time
    formats,          \* self.formats: the formats export writes
    exports           \* self.exports: for each exported layer, what was written

config_vars == <<keyboard_layout, layout, case_type, corner_type, corners, feet,
                 kerf, key_spacing, screw, stab_type, switch_type, x_pad,
                 x_pcb_pad, y_pad, y_pcb_pad, layers, grow_x, grow_y>>

size_vars == <<width, height, inside_width, inside_height, horizontal_edge,
               vertical_edge>>

engine_vars == <<layer_screw, plate, origin, x_off, x_holes, y_holes>>

export_vars == <<formats, exports>>

vars == <<pc, frame, log, config_vars, size_vars, engine_vars, built, export_vars>>

----------------------------------------------------------------------------
(* Bounds of the model. *)

\* longest row list of a raw layout
MaxRowLen == 3

\* most row lists in a raw layout
MaxRows == 2

----------------------------------------------------------------------------
(* Small helpers. *)

Has(key, f) == f \in DOMAIN key

Get(key, f, default) == IF f \in DOMAIN key THEN key[f] ELSE default

\* d with field f set to v, whether or not d had it (Python's d[f] = v)
Put(d, f, v) == [g \in (DOMAIN d) \cup {f} |-> IF g = f THEN v ELSE d[g]]

----------------------------------------------------------------------------
(* __init__: the defaults set before parse_layout is called. *)

\* self.formats when __init__ is given none
DefaultFormats == {"dxf"}

\* self.feet = None: no feet (the code tests  if self.feet, which None and
\* an empty dict fail alike)
NoFeet == << >>

\* self.screw as __init__ sets it
DefaultScrew == [count |-> 4, radius |-> 200000]

\* self.layers as __init__ sets it
DefaultLayers == [l \in {"switch"} |-> << >>]

\* self.plate before any layer is built
NoPlate == [box |-> <<0, 0>>, fillet |-> 0, pos |-> <<0, 0, 0, 0>>,
            gap |-> <<0, 1, 0, 1>>, pending |-> << >>, cut |-> << >>]

----------------------------------------------------------------------------
(* parse_layout. *)

\* the key a descriptor object becomes: w and h default to 1
DescribedKey(k) ==
    LET k1 == IF Has(k, "w") THEN k ELSE Put(k, "w", 4)
    IN  IF Has(k1, "h") THEN k1 ELSE Put(k1, "h", 4)

\* one element k of a row list; a is the loop's state (row_layout,
\* row_width, row_height, key_desc, and raw: the input row, whose descriptor
\* objects are the very objects that get their defaults)
ParseElement(a, k) ==
    LET isdesc == k.type = "dict"
        key == IF isdesc THEN DescribedKey(k.val)
               ELSE IF ~a.key_desc THEN [w |-> 4, h |-> 4]
               ELSE << >>
        emit == isdesc \/ ~a.key_desc
        w1 == IF Has(key, "w") THEN a.row_width + key.w ELSE a.row_width
        w2 == IF Has(key, "x") THEN w1 + key.x ELSE w1
    IN  [row_layout |-> IF emit THEN Append(a.row_layout, key) ELSE a.row_layout,
         row_width  |-> w2,
         row_height |-> IF Has(key, "y") THEN key.y ELSE a.row_height,
         key_desc   |-> isdesc,
         raw        |-> Append(a.raw, IF isdesc THEN [type |-> "dict", val |-> key]
                                      ELSE k)]

RECURSIVE ParseElements(_, _, _)
\* the loop  for k in row
ParseElements(a, row, i) ==
    IF i > Len(row) THEN a
    ELSE ParseElements(ParseElement(a, row[i]), row, i + 1)

\* Python's None
None == "None"

Logged(c, msg) == [c EXCEPT !.log = Append(@, msg)]

\* lines 399-413: the case_type of a configuration row
PropCaseType(c, row) ==
    IF ~Has(row, "case_type") THEN c
    ELSE LET c1 == [c EXCEPT !.case_type = row.case_type]
             hasScrew == Has(row, "screw")
             hasRadius == hasScrew /\ Has(row.screw, "radius")
             hasCount == hasScrew /\ Has(row.screw, "count")
         IN  IF row.case_type = "poker"
                /\ ~(hasRadius /\ row.screw.radius > 0)
             THEN Logged(c1, "screw.size not set")
             ELSE IF row.case_type = "sandwich"
             THEN IF ~hasScrew THEN Logged(c1, "No screw setting")
                  ELSE IF ~hasRadius \/ row.screw.radius <= 0
                  THEN Logged(c1, "screw.radius not set")
                  ELSE IF ~hasCount \/ row.screw.count < 4
                  THEN Logged(c1, "Need at least 4 screws for a sandwich case")
                  ELSE c1
             ELSE IF row.case_type # None /\ row.case_type # ""
             THEN Logged(c1, "Unknown case type")
             ELSE c1

\* lines 415-419: the corner_type of a configuration row
PropCornerType(c, row) ==
    IF ~Has(row, "corner_type") THEN c
    ELSE IF row.corner_type \in {"round", "bevel"}
    THEN [c EXCEPT !.corner_type = row.corner_type]
    ELSE Logged(c, "Unknown corner_type")

\* lines 450-458: the screw of a configuration row (count and radius are
\* numbers in the model, so the isinstance tests hold when the key is there)
PropScrew(c, row) ==
    IF ~Has(row, "screw") THEN c
    ELSE LET c1 == IF Has(row.screw, "count")
                   THEN [c EXCEPT !.screw.count = row.screw.count]
                   ELSE Logged(c, "Invalid screw.count")
         IN  IF Has(row.screw, "radius")
             THEN [c1 EXCEPT !.screw.radius = row.screw.radius]
             ELSE Logged(c1, "Invalid screw.radius")

\* lines 460-465: the stabilizer of a configuration row
PropStabilizer(c, row) ==
    IF ~Has(row, "stabilizer") THEN c
    ELSE IF row.stabilizer \in {"cherry", "costar", "cherry-costar", "matias", "alps"}
    THEN [c EXCEPT !.stab_type = row.stabilizer]
    ELSE [Logged(c, "Unknown stabilizer type") EXCEPT !.stab_type = "cherry"]

\* lines 467-472: the switch of a configuration row
PropSwitch(c, row) ==
    IF ~Has(row, "switch") THEN c
    ELSE IF row.switch \in {"mx", "alpsmx", "mx-open", "mx-open-rotatable", "alps"}
    THEN [c EXCEPT !.switch_type = row.switch]
    ELSE [Logged(c, "Unknown switch type") EXCEPT !.switch_type = "mx"]

\* lines 421-439, 474-481: the settings that are copied (halved for
\* pcb_padding, grow_x and grow_y)
PropPlain(c, row) ==
    [c EXCEPT
       !.corners = Get(row, "corner_radius", @),
       !.feet = Get(row, "feet", @),
       !.kerf = Get(row, "kerf", @),
       !.key_spacing = Get(row, "key_spacing", @),
       !.x_pad = IF Has(row, "padding") THEN row.padding[1] ELSE @,
       !.y_pad = IF Has(row, "padding") THEN row.padding[2] ELSE @,
       !.x_pcb_pad = IF Has(row, "pcb_padding") THEN row.pcb_padding[1] \div 2 ELSE @,
       !.y_pcb_pad = IF Has(row, "pcb_padding") THEN row.pcb_padding[2] \div 2 ELSE @,
       !.layers = Get(row, "layers", @),
       !.grow_x = IF Has(row, "grow_x") THEN row.grow_x \div 2 ELSE @,
       !.grow_y = IF Has(row, "grow_y") THEN row.grow_y \div 2 ELSE @]

\* lines 394-481: a row that is a dict describes the whole keyboard
ParseProperties(c, row) ==
    LET c1 == PropCornerType(PropCaseType(c, row), row)
        c2 == PropScrew(PropPlain(c1, row), row)
        c3 == PropSwitch(PropStabilizer(c2, row), row)
    IN  [c3 EXCEPT !.raw = Append(@, [type |-> "dict", val |-> row])]

\* lines 483-513: a row that is a list of keys
ParseKeyRow(c, row) ==
    LET a == ParseElements([row_layout |-> << >>, row_width |-> 0,
                            row_height |-> 0, key_desc |-> c.key_desc,
                            raw |-> << >>], row, 1)
    IN  [c EXCEPT
           !.layout = Append(@, a.row_layout),
           !.layout_width = IF a.row_width > @ THEN a.row_width ELSE @,
           !.layout_height = @ + c.key_spacing + (a.row_height * c.key_spacing) \div 4,
           !.key_desc = a.key_desc,
           !.raw = Append(@, [type |-> "list", val |-> a.raw])]

\* lines 393-515: one row of self.keyboard_layout
ParseRow(c, row) ==
    IF row.type = "dict" THEN ParseProperties(c, row.val)
    ELSE IF row.type = "list" THEN ParseKeyRow(c, row.val)
    ELSE [Logged(c, "Unknown row type") EXCEPT !.raw = Append(@, row)]

RECURSIVE ParseRows(_, _, _)
\* the loop  for row in self.keyboard_layout
ParseRows(c, rows, i) ==
    IF i > Len(rows) THEN c
    ELSE ParseRows(ParseRow(c, rows[i]), rows, i + 1)

\* plate sizes whose inside leaves the kerf out
DimensionsWithoutKerf(c) ==
    LET w == (c.layout_width * c.key_spacing) \div 4 + 2 * (c.x_pad + c.x_pcb_pad)
        h == c.layout_height + 2 * (c.y_pad + c.y_pcb_pad)
    IN  [width |-> w,
         height |-> h,
         inside_height |-> h - c.y_pad * 2,
         inside_width |-> w - c.x_pad * 2,
         horizontal_edge |-> w \div 2,
         vertical_edge |-> h \div 2]

\* lines 522-527: the plate sizes, from the parsed layout
Dimensions(c) ==
    LET w == (c.layout_width * c.key_spacing) \div 4 + 2 * (c.x_pad + c.x_pcb_pad)
        h == c.layout_height + 2 * (c.y_pad + c.y_pcb_pad)
    IN  [width |-> w,
         height |-> h,
         inside_height |-> h - c.y_pad * 2 - c.kerf * 2,
         inside_width |-> w - c.x_pad * 2 - c.kerf * 2,
         horizontal_edge |-> w \div 2,
         vertical_edge |-> h \div 2]

\* the fields parse_layout reads and writes, and its three locals
ParseState ==
    [log |-> log, raw |-> << >>, layout |-> layout, layout_width |-> 0,
     layout_height |-> 0, key_desc |-> FALSE,
     case_type |-> case_type, corner_type |-> corner_type, corners |-> corners,
     feet |-> feet, kerf |-> kerf, key_spacing |-> key_spacing, screw |-> screw,
     stab_type |-> stab_type, switch_type |-> switch_type, x_pad |-> x_pad,
     x_pcb_pad |-> x_pcb_pad, y_pad |-> y_pad, y_pcb_pad |-> y_pcb_pad,
     layers |-> layers, grow_x |-> grow_x, grow_y |-> grow_y]

\* KeyboardCase.parse_layout, called once, at the end of __init__
parse_layout ==
    /\ pc = "new"
    /\ LET c == ParseRows(ParseState, keyboard_layout, 1)
           d == Dimensions(c)
       IN  /\ keyboard_layout' = c.raw
           /\ layout' = c.layout
           /\ log' = c.log
           /\ case_type' = c.case_type
           /\ corner_type' = c.corner_type
           /\ corners' = c.corners
           /\ feet' = c.feet
           /\ kerf' = c.kerf
           /\ key_spacing' = c.key_spacing
           /\ screw' = c.screw
           /\ stab_type' = c.stab_type
           /\ switch_type' = c.switch_type
           /\ x_pad' = c.x_pad
           /\ x_pcb_pad' = c.x_pcb_pad
           /\ y_pad' = c.y_pad
           /\ y_pcb_pad' = c.y_pcb_pad
           /\ layers' = c.layers
           /\ grow_x' = c.grow_x
           /\ grow_y' = c.grow_y
           /\ width' = d.width
           /\ height' = d.height
           /\ inside_width' = d.inside_width
           /\ inside_height' = d.inside_height
           /\ horizontal_edge' = d.horizontal_edge
           /\ vertical_edge' = d.vertical_edge
    /\ pc' = "idle"
    /\ UNCHANGED <<frame, engine_vars, built, export_vars>>

\* __init__, lines 99-143: every field but keyboard_layout and formats
InitFields ==
    /\ frame = << >>
    /\ log = << >>
    /\ layout = << >>
    /\ case_type = None
    /\ corner_type = None
    /\ corners = 0
    /\ feet = NoFeet
    /\ kerf = 0
    /\ key_spacing = 1905000
    /\ screw = DefaultScrew
    /\ layer_screw = DefaultScrew
    /\ stab_type = "cherry"
    /\ switch_type = "mx"
    /\ x_pad = 0
    /\ x_pcb_pad = 0
    /\ y_pad = 0
    /\ y_pcb_pad = 0
    /\ layers = DefaultLayers
    /\ grow_x = 0
    /\ grow_y = 0
    /\ width = 0
    /\ height = 0
    /\ inside_width = 0
    /\ inside_height = 0
    /\ horizontal_edge = 0
    /\ vertical_edge = 0
    /\ plate = NoPlate
    /\ origin = <<0, 0>>
    /\ x_off = 0
    /\ x_holes = 0
    /\ y_holes = 0
    /\ built = << >>
    /\ exports = << >>

----------------------------------------------------------------------------
(* The parser's inputs: raw layouts of row lists. *)

\* a plain element of a row list (a key label)
Plain == [type |-> "str"]

Desc(attrs) == [type |-> "dict", val |-> attrs]

\* the elements the raw rows are made of: a plain key, a 2-unit descriptor,
\* a descriptor with an x and a y offset and no size
ParseElems == {Plain, Desc([w |-> 8]), Desc([x |-> 2, y |-> 1])}

SeqsUpTo(S, n) == UNION {[1..m -> S] : m \in 0..n}

ParseInputRows == {[type |-> "list", val |-> r] : r \in SeqsUpTo(ParseElems, MaxRowLen)}

ParseInputs == UNION {[1..m -> ParseInputRows] : m \in 1..MaxRows}

InitParse ==
    /\ pc = "new"
    /\ keyboard_layout \in ParseInputs
    /\ InitFields
    /\ formats = DefaultFormats

NextParse == parse_layout

\* the constructor alone, over every raw layout of the bounds
SpecParse == InitParse /\ [][NextParse]_vars

----------------------------------------------------------------------------
(* What a row list is specified to yield, element by element. *)

\* element j of a row yields a key: a descriptor always, a plain element
\* unless the element before it in the row is a descriptor
EmitsKey(row, j) ==
    \/ row[j].type = "dict"
    \/ j = 1
    \/ row[j - 1].type # "dict"

\* the key an emitting element yields
KeyOf(e) ==
    IF e.type = "dict"
    THEN [f \in (DOMAIN e.val) \cup {"w", "h"} |->
            IF f \in DOMAIN e.val THEN e.val[f] ELSE 4]
    ELSE [w |-> 4, h |-> 4]

ExpectedKeys(row) ==
    LET idx == SelectSeq([j \in 1..Len(row) |-> j], LAMBDA j : EmitsKey(row, j))
    IN  [n \in 1..Len(idx) |-> KeyOf(row[idx[n]])]

RECURSIVE RowUnits(_)
\* the w and the x of every key of a normalized row, each counted once
RowUnits(keys) ==
    IF keys = << >> THEN 0
    ELSE Head(keys).w + Get(Head(keys), "x", 0) + RowUnits(Tail(keys))

MaxOf(S) == CHOOSE m \in S : \A n \in S : n <= m

\* C10: in parse_layout, within one row list, a descriptor followed by a
\* plain element yields exactly one key with the descriptor's attributes (w
\* and h defaulting to 1), each of several consecutive descriptors yields one
\* key, a plain element not preceded by a descriptor yields one 1x1 key, and
\* the row width counts the w and x of each emitted key once. (Stated over the
\* call: the rows before it, the layout and the width after it.)
C10_RowYieldsItsKeys ==
    [][pc = "new" =>
        /\ Len(layout') = Len(keyboard_layout)
        /\ \A i \in 1..Len(keyboard_layout) :
              layout'[i] = ExpectedKeys(keyboard_layout[i].val)
        /\ width' = (key_spacing \div 4)
                    * MaxOf({0} \cup {RowUnits(ExpectedKeys(keyboard_layout[i].val)) :
                                     i \in 1..Len(keyboard_layout)})]_vars

\* the same, for the first row list alone, which the flag enters cleared
C10_FirstRowYieldsItsKeys ==
    [][pc = "new" => layout'[1] = ExpectedKeys(keyboard_layout[1].val)]_vars

----------------------------------------------------------------------------
(* The plate: what the code uses of cadquery's Workplane.                  *)
(* pos is the working point <<x, y, i, j>>: x + i * x_gap, y + j * y_gap   *)
(* from the centre of the box, where the sandwich hole gaps x_gap, y_gap   *)
(* are the fractions gap[1] / gap[2] and gap[3] / gap[4].                  *)

\* Workplane("front").box(width, height, ...): a new plate, working point at
\* its centre, nothing drawn
Box(w, h) ==
    [box |-> <<w, h>>, fillet |-> 0, pos |-> <<0, 0, 0, 0>>,
     gap |-> <<0, 1, 0, 1>>, pending |-> << >>, cut |-> << >>]

\* plate.center(x, y): a relative move of the working point
PlateCenter(p, x, y) ==
    [p EXCEPT !.pos = <<@[1] + x, @[2] + y, @[3], @[4]>>]

\* plate.center(i * x_gap, j * y_gap)
PlateCenterGap(p, i, j) ==
    [p EXCEPT !.pos = <<@[1], @[2], @[3] + i, @[4] + j>>]

\* plate.polyline(points): a profile drawn at the working point, not yet cut
Polyline(p, points) ==
    [p EXCEPT !.pending = Append(@, [kind |-> "polyline", at |-> p.pos,
                                     points |-> points])]

\* plate.circle(radius)
Circle(p, radius) ==
    [p EXCEPT !.pending = Append(@, [kind |-> "circle", at |-> p.pos,
                                     radius |-> radius])]

\* plate.rect(w, h)
Rect(p, w, h) ==
    [p EXCEPT !.pending = Append(@, [kind |-> "rect", at |-> p.pos,
                                     size |-> <<w, h>>])]

\* plate.hole(diameter): cut at once at the working point
Hole(p, diameter) ==
    [p EXCEPT !.cut = Append(@, [kind |-> "hole", at |-> p.pos,
                                 diameter |-> diameter])]

\* a cutThruAll that leaves the drawn profiles as they are
CutThruAllKeeps(p) == p

\* plate.cutThruAll(): every drawn profile becomes a cut
CutThruAll(p) ==
    [p EXCEPT !.cut = @ \o p.pending, !.pending = << >>]

\* plate.edges("|Z").fillet(radius)
Fillet(p, radius) == [p EXCEPT !.fillet = radius]

----------------------------------------------------------------------------
(* center and recenter.  s is the part of self that a layer build changes: *)
(* plate, origin, x_off, x_holes, y_holes, layer_screw, log.               *)

\* the fields of self a build works on
Self ==
    [plate |-> plate, origin |-> origin, x_off |-> x_off, x_holes |-> x_holes,
     y_holes |-> y_holes, layer_screw |-> layer_screw, log |-> log]

\* a center() that moves the plate and records a move twice as far in x
CenterMiscounted(s, x, y) ==
    [s EXCEPT !.origin = <<@[1] + 2 * x, @[2] + y>>,
              !.plate = PlateCenter(@, x, y)]

\* KeyboardCase.center: move the working point and record the move
Center(s, x, y) ==
    [s EXCEPT !.origin = <<@[1] + x, @[2] + y>>,
              !.plate = PlateCenter(@, x, y)]

\* KeyboardCase.recenter: move back by origin, reset origin
Recenter(s) ==
    [s EXCEPT !.plate = PlateCenter(@, -s.origin[1], -s.origin[2]),
              !.origin = <<0, 0>>]

----------------------------------------------------------------------------
(* layout_sandwich_holes. *)

\* a placement that gives every free hole to the x axis
PlaceHoleAlwaysX(x, y, _x, _y) == <<_x + 1, _y>>

\* a placement that breaks every tie toward the x axis
PlaceHoleTieToX(x, y, _x, _y) ==
    IF x * (_y + 1) >= y * (_x + 1) THEN <<_x + 1, _y>> ELSE <<_x, _y + 1>>

\* lines 650-658: one free hole goes to an axis; x / (_x + 1) and
\* y / (_y + 1) are compared exactly, by cross multiplication
PlaceHole(x, y, _x, _y) ==
    IF x * (_y + 1) = y * (_x + 1)
    THEN IF x >= y THEN <<_x + 1, _y>> ELSE <<_x, _y + 1>>
    ELSE IF x * (_y + 1) > y * (_x + 1)
    THEN <<_x + 1, _y>>
    ELSE <<_x, _y + 1>>

RECURSIVE PlaceHoles(_, _, _, _, _)
\* line 649: the loop  for f in range(free)
PlaceHoles(x, y, _x, _y, free) ==
    IF free <= 0 THEN <<_x, _y>>
    ELSE LET n == PlaceHole(x, y, _x, _y)
         IN  PlaceHoles(x, y, n[1], n[2], free - 1)

\* line 643: the count must be even and at least 4
ValidHoles(holes) == holes % 2 = 0 /\ holes >= 4

\* KeyboardCase.layout_sandwich_holes
LayoutSandwichHoles(s) ==
    IF s.layer_screw.count >= 4
    THEN LET holes == s.layer_screw.count
         IN  IF ValidHoles(holes)
             THEN LET n == PlaceHoles(width + kerf * 2, height + kerf * 2, 0, 0,
                                      (holes - 4) \div 2)
                  IN  [s EXCEPT !.x_holes = n[1], !.y_holes = n[2]]
             ELSE Logged(s, "Invalid hole configuration")
    ELSE s

----------------------------------------------------------------------------
(* init_plate and the helpers it calls. *)

\* self.layers[layer].get(f, default)
Opt(layer, f, default) == Get(layers[layer], f, default)

\* lines 558-581: the four bevel triangles, as init_plate lists them
BevelPoints ==
    LET he == horizontal_edge
        ve == vertical_edge
    IN  << << <<he + kerf, ve + kerf - corners>>, <<he + kerf, ve + kerf>>,
              <<he + kerf - corners, ve + kerf>>, <<he + kerf, ve + kerf - corners>> >>,
           << <<-he - kerf, ve + kerf - corners>>, <<-he - kerf, ve + kerf>>,
              <<-he - kerf + corners, ve + kerf>>, <<-he - kerf, ve + kerf - corners>> >>,
           << <<he + kerf, -ve - kerf + corners>>, <<he + kerf, -ve - kerf>>,
              <<he + kerf - corners, -ve - kerf>>, <<he + kerf, -ve - kerf + corners>> >>,
           << <<-he - kerf, -ve - kerf + corners>>, <<-he - kerf, -ve - kerf>>,
              <<-he - kerf + corners, -ve - kerf>>, <<-he - kerf, -ve - kerf + corners>> >> >>

RECURSIVE Polylines(_, _, _)
\* plate.polyline(points) for each of a list of point lists
Polylines(p, polygons, i) ==
    IF i > Len(polygons) THEN p
    ELSE Polylines(Polyline(p, polygons[i]), polygons, i + 1)

\* the six holes with the fifth one mirrored from the second
PokerHolePointsMirrored ==
    << <<-13900000, 920000>>, <<-11730000, -1940000>>, <<-1430000, 0>>,
       <<4800000, 3790000>>, <<11730000, -1940000>>, <<13900000, 920000>> >>

\* line 589: the six poker holes
PokerHolePoints ==
    << <<-13900000, 920000>>, <<-11730000, -1940000>>, <<-1430000, 0>>,
       <<4800000, 3790000>>, <<11755000, -1940000>>, <<13900000, 920000>> >>

RECURSIVE PokerHoles(_, _, _)
\* lines 593-594: move, hole, move back
PokerHoles(s, points, i) ==
    IF i > Len(points) THEN s
    ELSE LET c == points[i]
             p == PlateCenter(Hole(PlateCenter(s.plate, c[1], c[2]),
                                   s.layer_screw.radius - kerf), -c[1], -c[2])
         IN  PokerHoles([s EXCEPT !.plate = p], points, i + 1)

\* the two edge slots at the places they have on a plate 285 mm wide
PokerSlotsFixed(s) ==
    LET rect_center == (28500000 \div 2) - (350000 \div 2)
        slot(p, cx, cy) ==
            PlateCenter(Rect(PlateCenter(p, cx, cy), 350000 - kerf, 500000 - kerf),
                        -cx, -cy)
    IN  [s EXCEPT !.plate = slot(slot(@, rect_center, 920000), -rect_center, 920000)]

\* lines 590-592, 595-596: the two edge slots
PokerSlots(s) ==
    LET rect_center == (width \div 2) - (350000 \div 2)
        slot(p, cx, cy) ==
            PlateCenter(Rect(PlateCenter(p, cx, cy), 350000 - kerf, 500000 - kerf),
                        -cx, -cy)
    IN  [s EXCEPT !.plate = slot(slot(@, rect_center, 920000), -rect_center, 920000)]

RECURSIVE HoleLeg(_, _, _, _, _)
\* lines 606-613: one side of the sandwich hole walk: n times a step of one
\* gap and a circle
HoleLeg(p, n, i, j, radius) ==
    IF n <= 0 THEN p
    ELSE HoleLeg(Circle(PlateCenterGap(p, i, j), radius), n - 1, i, j, radius)

\* a walk that leaves out the last side
SandwichWalkOpen(s) ==
    LET radius == s.layer_screw.radius - kerf
        hole_distance == screw.radius * 2 - 50000 - kerf
        p0 == [s.plate EXCEPT
                 !.gap = <<width - 4 * screw.radius + 100000, s.x_holes + 1,
                           height - 4 * screw.radius + 100000, s.y_holes + 1>>]
        p1 == PlateCenter(p0, hole_distance, hole_distance)
        p2 == HoleLeg(p1, s.x_holes + 1, 1, 0, radius)
        p3 == HoleLeg(p2, s.y_holes + 1, 0, 1, radius)
        p4 == HoleLeg(p3, s.x_holes + 1, -1, 0, radius)
    IN  [s EXCEPT !.plate = PlateCenter(p4, -hole_distance, -hole_distance)]

\* lines 601-614: the walk round the four sides
SandwichWalk(s) ==
    LET radius == s.layer_screw.radius - kerf
        hole_distance == screw.radius * 2 - 50000 - kerf
        p0 == [s.plate EXCEPT
                 !.gap = <<width - 4 * screw.radius + 100000, s.x_holes + 1,
                           height - 4 * screw.radius + 100000, s.y_holes + 1>>]
        p1 == PlateCenter(p0, hole_distance, hole_distance)
        p2 == HoleLeg(p1, s.x_holes + 1, 1, 0, radius)
        p3 == HoleLeg(p2, s.y_holes + 1, 0, 1, radius)
        p4 == HoleLeg(p3, s.x_holes + 1, -1, 0, radius)
        p5 == HoleLeg(p4, s.y_holes + 1, 0, -1, radius)
    IN  [s EXCEPT !.plate = PlateCenter(p5, -hole_distance, -hole_distance)]

\* lines 597-617: the screw holes of a sandwich case
SandwichHoles(s) ==
    LET s1 == Center(s, -(width \div 2) + kerf, -(height \div 2) + kerf)
        s2 == IF s1.layer_screw.count >= 4
              THEN SandwichWalk(LayoutSandwichHoles(s1))
              ELSE Logged(s1, "Not adding holes")
    IN  Center(s2, (width \div 2) - kerf, (height \div 2) - kerf)

\* lines 585-619: the mount holes
MountHoles(s, inset) ==
    IF inset \/ case_type = None \/ case_type = "" \/ case_type = "reinforcing"
    THEN s
    ELSE IF case_type = "poker" THEN PokerSlots(PokerHoles(s, PokerHolePoints, 1))
    ELSE IF case_type = "sandwich" THEN SandwichHoles(s)
    ELSE Logged(s, "Unknown case type")

RECURSIVE LayerHolesOneWay(_, _, _)
\* the holes of the layer, without the move back after each
LayerHolesOneWay(p, holes, i) ==
    IF i > Len(holes) THEN p
    ELSE LET h == holes[i]
         IN  LayerHolesOneWay(Circle(PlateCenter(p, h[1], h[2]), h[3] - kerf),
                              holes, i + 1)

RECURSIVE LayerHoles(_, _, _)
\* lines 377-380: move, circle, move back, for each hole of the layer
LayerHoles(p, holes, i) ==
    IF i > Len(holes) THEN p
    ELSE LET h == holes[i]
         IN  LayerHoles(PlateCenter(Circle(PlateCenter(p, h[1], h[2]), h[3] - kerf),
                                    -h[1], -h[2]), holes, i + 1)

\* KeyboardCase.cut_plate_holes
CutPlateHoles(s, layer) ==
    LET s1 == Center(s, -(width \div 2) + kerf, -(height \div 2) + kerf)
        s2 == [s1 EXCEPT !.plate = LayerHoles(@, layers[layer].holes, 1)]
        s3 == Center(s2, (width \div 2) - kerf, (height \div 2) - kerf)
    IN  [s3 EXCEPT !.plate = CutThruAll(@)]

\* KeyboardCase.cut_plate_polygons
CutPlatePolygons(s, layer) ==
    [s EXCEPT !.plate = CutThruAll(Polylines(@, layers[layer].polygons, 1))]

\* the layer's screw spec laid over what the layer before left in
\* layer_screw
LayerScrewKept(layer) ==
    LET o == Opt(layer, "screw", << >>)
    IN  [count |-> Get(o, "count", layer_screw.count),
         radius |-> Get(o, "radius", layer_screw.radius)]

\* lines 542-548: the layer's screw spec
LayerScrew(layer) ==
    LET o == Opt(layer, "screw", << >>)
    IN  [count |-> Get(o, "count", screw.count),
         radius |-> Get(o, "radius", screw.radius)]

\* lines 550-583: the corners
Corners(s, inset) ==
    IF ~inset /\ corners > 0
    THEN IF corner_type = "round"
         THEN [s EXCEPT !.plate = Fillet(@, corners)]
         ELSE IF corner_type = "bevel"
         THEN [s EXCEPT !.plate = Polylines(@, BevelPoints, 1)]
         ELSE Logged(s, "Unknown corner type")
    ELSE s

\* KeyboardCase.init_plate (the layer's usb_cutout is never asked for by the
\* configurations of the model)
InitPlate(s, layer) ==
    LET inset == Opt(layer, "inset", FALSE)
        oversize == Opt(layer, "oversize", 0)
        w == IF inset THEN inside_width - kerf * 2 + oversize
             ELSE width + kerf * 2 + oversize
        h == IF inset THEN inside_height - kerf * 2 + oversize
             ELSE height + kerf * 2 + oversize
        s1 == [s EXCEPT !.plate = Box(w, h), !.layer_screw = LayerScrew(layer)]
        s2 == MountHoles(Corners(s1, inset), inset)
        s3 == IF Has(layers[layer], "holes") THEN CutPlateHoles(s2, layer) ELSE s2
        s4 == IF Has(layers[layer], "polygons") THEN CutPlatePolygons(s3, layer) ELSE s3
    IN  [s4 EXCEPT !.origin = <<0, 0>>, !.plate = CutThruAll(@)]

----------------------------------------------------------------------------
(* cut_switch: the dimensions. *)

\* lines 53-67: size (quarter units) -> <<width_between_center, switch_offset>>
STABILIZERS ==
    (8 :> <<1195000, 0>>) @@ (12 :> <<1905000, 0>>) @@ (16 :> <<2857500, 0>>)
    @@ (18 :> <<3467100, 0>>) @@ (22 :> <<4286250, 0>>)
    @@ (24 :> <<4762500, 952500>>) @@ (25 :> <<5000000, 0>>)
    @@ (26 :> <<5238000, 0>>) @@ (28 :> <<5715000, 0>>)
    @@ (32 :> <<6667500, 0>>) @@ (36 :> <<6667500, 0>>) @@ (40 :> <<6667500, 0>>)

\* lines 713-742: the standard locations, for the effective kerf k of the key
\* and its width w
StandardDims(k, w) ==
    LET inside == (IF w = 11 THEN 1670000 ELSE 1270000) + k
        y_wire == 230000 - k
    IN  [mx_height |-> 700000 - k,
         mx_width |-> 700000 - k,
         mx_wing_width |-> 780000 - k,
         alps_height |-> 640000 - k,
         alps_width |-> 780000 - k,
         wing_inside |-> 290000 + k,
         wing_outside |-> 600000 - k,
         mx_stab_inside_y |-> 475000 - k,
         mx_stab_inside_x |-> 857500 + k,
         stab_cherry_top_x |-> 550000 - k,
         stab_4 |-> 1030000 + k,
         stab_5 |-> 650000 - k,
         stab_6 |-> 1360000 - k,
         mx_stab_outside_x |-> 1522500 - k,
         stab_y_wire |-> y_wire,
         stab_bottom_y_wire |-> y_wire - k,
         stab_9 |-> 1610000 - k,
         stab_cherry_wing_bottom_x |-> 50000 - k,
         stab_cherry_bottom_x |-> 675000 - k,
         stab_12 |-> 775000 - k,
         stab_13 |-> 600000 - k,
         stab_cherry_bottom_wing_bottom_y |-> 800000 - k,
         stab_cherry_half_width |-> 332500 - k,
         stab_cherry_bottom_wing_half_width |-> 165000 - k,
         stab_cherry_outside_x |-> 420000 - k,
         alps_stab_top_y |-> 400000 + k,
         alps_stab_bottom_y |-> 900000 - k,
         alps_stab_inside_x |-> inside,
         alps_stab_ouside_x |-> inside + 270000 - k * 2]

\* lines 744-753: on the top layer the opening has the size of the keycap
TopDims(d, k, w, h, layer) ==
    LET ks == Opt(layer, "key_spacing", key_spacing)
    IN  [d EXCEPT
           !.mx_width = IF h > 4 THEN ((ks * h) \div 8 + 50000) - k
                        ELSE ((ks * w) \div 8 + 50000) - k,
           !.mx_height = (ks \div 2 + 50000) - k]

\* lines 754-779: on the reinforcing layer every dimension grows by offset
ReinforcingDims(d, k) ==
    LET offset == 100000
        top_x == d.stab_cherry_top_x + (IF offset < 250000 THEN 250000 ELSE offset)
        bottom_x == d.stab_cherry_bottom_x
                    + (IF offset < 430000 THEN 430000 - k ELSE offset - k)
    IN  [d EXCEPT
           !.mx_height = @ + offset,
           !.mx_width = @ + offset,
           !.mx_wing_width = d.mx_width + offset,
           !.alps_height = @ + offset,
           !.alps_width = @ + offset,
           !.wing_inside = @ + offset,
           !.wing_outside = @ + offset,
           !.mx_stab_inside_x = @ + offset,
           !.stab_cherry_top_x = top_x,
           !.stab_y_wire = top_x,
           !.mx_stab_inside_y = top_x,
           !.stab_4 = @ + offset,
           !.stab_5 = @ + offset,
           !.stab_6 = @ + offset,
           !.mx_stab_outside_x = @ + offset,
           !.stab_9 = @ + offset,
           !.stab_cherry_bottom_x = bottom_x,
           !.stab_cherry_wing_bottom_x = bottom_x,
           !.stab_bottom_y_wire = bottom_x,
           !.stab_cherry_bottom_wing_bottom_y = bottom_x,
           !.stab_13 = bottom_x,
           !.stab_12 = bottom_x,
           !.stab_cherry_half_width = @ + offset,
           !.stab_cherry_bottom_wing_half_width = @ + offset,
           !.stab_cherry_outside_x = @ + offset,
           !.alps_stab_top_y = @ - offset,
           !.alps_stab_bottom_y = @ + offset,
           !.alps_stab_inside_x = @ - offset,
           !.alps_stab_ouside_x = @ + offset]

\* lines 712-779: the dimensions cut_switch works with
Dims(k, w, h, layer) ==
    LET d == StandardDims(k, w)
    IN  IF layer = "top" THEN TopDims(d, k, w, h, layer)
        ELSE IF layer = "reinforcing" THEN ReinforcingDims(d, k)
        ELSE d

----------------------------------------------------------------------------
(* cut_switch: the polygon templates. *)

\* an mx switch body of the nominal size, whatever the kerf
SwitchMxNominal(d) ==
    << <<700000 + grow_x, -700000 - grow_y>>, <<700000 + grow_x, 700000 + grow_y>>,
       <<-700000 - grow_x, 700000 + grow_y>>, <<-700000 - grow_x, -700000 - grow_y>>,
       <<700000 + grow_x, -700000 - grow_y>> >>

\* lines 798-804: the mx switch body
SwitchMx(d) ==
    << <<d.mx_width + grow_x, -d.mx_height - grow_y>>,
       <<d.mx_width + grow_x, d.mx_height + grow_y>>,
       <<-d.mx_width - grow_x, d.mx_height + grow_y>>,
       <<-d.mx_width - grow_x, -d.mx_height - grow_y>>,
       <<d.mx_width + grow_x, -d.mx_height - grow_y>> >>

\* lines 806-820: the alpsmx switch body
SwitchAlpsMx(d) ==
    << <<d.mx_width, -d.mx_height>>, <<d.mx_width, -d.alps_height>>,
       <<d.alps_width, -d.alps_height>>, <<d.alps_width, d.alps_height>>,
       <<d.mx_width, d.alps_height>>, <<d.mx_width, d.mx_height>>,
       <<-d.mx_width, d.mx_height>>, <<-d.mx_width, d.alps_height>>,
       <<-d.alps_width, d.alps_height>>, <<-d.alps_width, -d.alps_height>>,
       <<-d.mx_width, -d.alps_height>>, <<-d.mx_width, -d.mx_height>>,
       <<d.mx_width, -d.mx_height>> >>

\* lines 822-852: the mx-open switch body; the wings are left out when
\* mx_wing_width equals mx_width
SwitchMxOpen(d) ==
    LET wings == d.mx_width # d.mx_wing_width
    IN  << <<d.mx_width, -d.mx_height>> >>
        \o (IF wings THEN << <<d.mx_width, -d.wing_outside>>,
          <<d.mx_wing_width, -d.wing_outside>>,
          <<d.mx_wing_width, -d.wing_inside>>,
          <<d.mx_width, -d.wing_inside>>, <<d.mx_width, d.wing_inside>>,
          <<d.mx_wing_width, d.wing_inside>>,
          <<d.mx_wing_width, d.wing_outside>>,
          <<d.mx_width, d.wing_outside>> >>
            ELSE << >>)
        \o << <<d.mx_width, d.mx_height>>, <<-d.mx_width, d.mx_height>> >>
        \o (IF wings THEN << <<-d.mx_width, d.wing_outside>>,
          <<-d.mx_wing_width, d.wing_outside>>,
          <<-d.mx_wing_width, d.wing_inside>>,
          <<-d.mx_width, d.wing_inside>>, <<-d.mx_width, -d.wing_inside>>,
          <<-d.mx_wing_width, -d.wing_inside>>,
          <<-d.mx_wing_width, -d.wing_outside>>,
          <<-d.mx_width, -d.wing_outside>> >>
            ELSE << >>)
        \o << <<-d.mx_width, -d.mx_height>>, <<d.mx_width, -d.mx_height>> >>

\* lines 854-892: the mx-open-rotatable switch body
SwitchMxOpenRotatable(d) ==
    << <<d.mx_width, -d.mx_height>>, <<d.mx_width, -d.wing_outside>>,
       <<d.alps_width, -d.wing_outside>>, <<d.alps_width, -d.wing_inside>>,
       <<d.mx_width, -d.wing_inside>>, <<d.mx_width, d.wing_inside>>,
       <<d.alps_width, d.wing_inside>>, <<d.alps_width, d.wing_outside>>,
       <<d.mx_width, d.wing_outside>>, <<d.mx_width, d.mx_height>>,
       <<d.wing_outside, d.mx_height>>, <<d.wing_outside, d.alps_width>>,
       <<d.wing_inside, d.alps_width>>, <<d.wing_inside, d.mx_height>>,
       <<-d.wing_inside, d.mx_height>>, <<-d.wing_inside, d.alps_width>>,
       <<-d.wing_outside, d.alps_width>>, <<-d.wing_outside, d.mx_height>>,
       <<-d.mx_width, d.mx_height>>, <<-d.mx_width, d.wing_outside>>,
       <<-d.alps_width, d.wing_outside>>, <<-d.alps_width, d.wing_inside>>,
       <<-d.mx_width, d.wing_inside>>, <<-d.mx_width, -d.wing_inside>>,
       <<-d.alps_width, -d.wing_inside>>, <<-d.alps_width, -d.wing_outside>>,
       <<-d.mx_width, -d.wing_outside>>, <<-d.mx_width, -d.mx_height>>,
       <<-d.wing_outside, -d.mx_height>>, <<-d.wing_outside, -d.alps_width>>,
       <<-d.wing_inside, -d.alps_width>>, <<-d.wing_inside, -d.mx_height>>,
       <<d.wing_inside, -d.mx_height>>, <<d.wing_inside, -d.alps_width>>,
       <<d.wing_outside, -d.alps_width>>, <<d.wing_outside, -d.mx_height>>,
       <<d.mx_width, -d.mx_height>> >>

\* lines 894-900: the alps switch body
SwitchAlps(d) ==
    << <<d.alps_width, -d.alps_height>>, <<d.alps_width, d.alps_height>>,
       <<-d.alps_width, d.alps_height>>, <<-d.alps_width, -d.alps_height>>,
       <<d.alps_width, -d.alps_height>> >>

\* lines 924-970: the 2-unit cherry-costar stabiliser, one polygon
Stab2CherryCostar(d) ==
    << << <<d.mx_width, -d.mx_height>>, <<d.mx_width, -d.mx_stab_inside_y>>,
          <<d.mx_stab_inside_x, -d.mx_stab_inside_y>>,
          <<d.mx_stab_inside_x, -d.stab_cherry_top_x>>,
          <<d.stab_4, -d.stab_cherry_top_x>>, <<d.stab_4, -d.stab_5>>,
          <<d.stab_6, -d.stab_5>>, <<d.stab_6, -d.stab_cherry_top_x>>,
          <<d.mx_stab_outside_x, -d.stab_cherry_top_x>>,
          <<d.mx_stab_outside_x, -d.stab_y_wire>>,
          <<d.stab_9, -d.stab_y_wire>>,
          <<d.stab_9, d.stab_cherry_wing_bottom_x>>,
          <<d.mx_stab_outside_x, d.stab_cherry_wing_bottom_x>>,
          <<d.mx_stab_outside_x, d.stab_cherry_bottom_x>>,
          <<d.stab_6, d.stab_cherry_bottom_x>>, <<d.stab_6, d.stab_12>>,
          <<d.stab_4, d.stab_12>>, <<d.stab_4, d.stab_cherry_bottom_x>>,
          <<d.mx_stab_inside_x, d.stab_cherry_bottom_x>>,
          <<d.mx_stab_inside_x, d.stab_13>>, <<d.mx_width, d.stab_13>>,
          <<d.mx_width, d.mx_height>>, <<-d.mx_width, d.mx_height>>,
          <<-d.mx_width, d.stab_13>>, <<-d.mx_stab_inside_x, d.stab_13>>,
          <<-d.mx_stab_inside_x, d.stab_cherry_bottom_x>>,
          <<-d.stab_4, d.stab_cherry_bottom_x>>, <<-d.stab_4, d.stab_12>>,
          <<-d.stab_6, d.stab_12>>, <<-d.stab_6, d.stab_cherry_bottom_x>>,
          <<-d.mx_stab_outside_x, d.stab_cherry_bottom_x>>,
          <<-d.mx_stab_outside_x, d.stab_cherry_wing_bottom_x>>,
          <<-d.stab_9, d.stab_cherry_wing_bottom_x>>,
          <<-d.stab_9, -d.stab_y_wire>>,
          <<-d.mx_stab_outside_x, -d.stab_y_wire>>,
          <<-d.mx_stab_outside_x, -d.stab_cherry_top_x>>,
          <<-d.stab_6, -d.stab_cherry_top_x>>, <<-d.stab_6, -d.stab_5>>,
          <<-d.stab_4, -d.stab_5>>, <<-d.stab_4, -d.stab_cherry_top_x>>,
          <<-d.mx_stab_inside_x, -d.stab_cherry_top_x>>,
          <<-d.mx_stab_inside_x, -d.mx_stab_inside_y>>,
          <<-d.mx_width, -d.mx_stab_inside_y>>,
          <<-d.mx_width, -d.mx_height>>, <<d.mx_width, -d.mx_height>> >> >>

\* lines 977-1007: the 2-unit cherry stabiliser, one polygon
Stab2Cherry(d) ==
    << << <<d.mx_stab_inside_x, -d.mx_stab_inside_y>>,
          <<d.mx_stab_inside_x, -d.stab_cherry_top_x>>,
          <<d.mx_stab_outside_x, -d.stab_cherry_top_x>>,
          <<d.mx_stab_outside_x, -d.stab_y_wire>>,
          <<d.stab_9, -d.stab_y_wire>>,
          <<d.stab_9, d.stab_cherry_wing_bottom_x>>,
          <<d.mx_stab_outside_x, d.stab_cherry_wing_bottom_x>>,
          <<d.mx_stab_outside_x, d.stab_cherry_bottom_x>>,
          <<d.stab_6, d.stab_cherry_bottom_x>>,
          <<d.stab_6, d.stab_cherry_bottom_wing_bottom_y>>,
          <<d.stab_4, d.stab_cherry_bottom_wing_bottom_y>>,
          <<d.stab_4, d.stab_cherry_bottom_x>>,
          <<d.mx_stab_inside_x, d.stab_cherry_bottom_x>>,
          <<d.mx_stab_inside_x, d.stab_13>>,
          <<-d.mx_stab_inside_x, d.stab_13>>,
          <<-d.mx_stab_inside_x, d.stab_cherry_bottom_x>>,
          <<-d.stab_4, d.stab_cherry_bottom_x>>,
          <<-d.stab_4, d.stab_cherry_bottom_wing_bottom_y>>,
          <<-d.stab_6, d.stab_cherry_bottom_wing_bottom_y>>,
          <<-d.stab_6, d.stab_cherry_bottom_x>>,
          <<-d.mx_stab_outside_x, d.stab_cherry_bottom_x>>,
          <<-d.mx_stab_outside_x, d.stab_cherry_wing_bottom_x>>,
          <<-d.stab_9, d.stab_cherry_wing_bottom_x>>,
          <<-d.stab_9, -d.stab_y_wire>>,
          <<-d.mx_stab_outside_x, -d.stab_y_wire>>,
          <<-d.mx_stab_outside_x, -d.stab_cherry_top_x>>,
          <<-d.mx_stab_inside_x, -d.stab_cherry_top_x>>,
          <<-d.mx_stab_inside_x, -d.mx_stab_inside_y>>,
          <<d.mx_stab_inside_x, -d.mx_stab_inside_y>> >> >>

\* lines 1014-1027: the 2-unit costar stabiliser: points_l, points_r
Stab2Costar(d) ==
    << << <<-d.stab_4, -d.stab_5>>, <<-d.stab_6, -d.stab_5>>,
          <<-d.stab_6, d.stab_12>>, <<-d.stab_4, d.stab_12>>,
          <<-d.stab_4, -d.stab_5>> >>,
       << <<d.stab_4, -d.stab_5>>, <<d.stab_6, -d.stab_5>>,
          <<d.stab_6, d.stab_12>>, <<d.stab_4, d.stab_12>>,
          <<d.stab_4, -d.stab_5>> >> >>

\* lines 1037-1050: the 2-unit alps / matias stabiliser: points_l, points_r
Stab2Alps(d) ==
    << << <<-d.alps_stab_inside_x, d.alps_stab_top_y>>,
          <<-d.alps_stab_ouside_x, d.alps_stab_top_y>>,
          <<-d.alps_stab_ouside_x, d.alps_stab_bottom_y>>,
          <<-d.alps_stab_inside_x, d.alps_stab_bottom_y>>,
          <<-d.alps_stab_inside_x, d.alps_stab_top_y>> >>,
       << <<d.alps_stab_inside_x, d.alps_stab_top_y>>,
          <<d.alps_stab_ouside_x, d.alps_stab_top_y>>,
          <<d.alps_stab_ouside_x, d.alps_stab_bottom_y>>,
          <<d.alps_stab_inside_x, d.alps_stab_bottom_y>>,
          <<d.alps_stab_inside_x, d.alps_stab_top_y>> >> >>

\* lines 1066-1104: the spacebar cherry-costar stabiliser, one polygon
StabBarCherryCostar(d, x) ==
    << << <<x - d.stab_cherry_half_width, -d.stab_y_wire>>,
          <<x - d.stab_cherry_half_width, -d.stab_cherry_top_x>>,
          <<x - d.stab_cherry_bottom_wing_half_width, -d.stab_cherry_top_x>>,
          <<x - d.stab_cherry_bottom_wing_half_width, -d.stab_5>>,
          <<x + d.stab_cherry_bottom_wing_half_width, -d.stab_5>>,
          <<x + d.stab_cherry_bottom_wing_half_width, -d.stab_cherry_top_x>>,
          <<x + d.stab_cherry_half_width, -d.stab_cherry_top_x>>,
          <<x + d.stab_cherry_half_width, -d.stab_y_wire>>,
          <<x + d.stab_cherry_outside_x, -d.stab_y_wire>>,
          <<x + d.stab_cherry_outside_x, d.stab_cherry_wing_bottom_x>>,
          <<x + d.stab_cherry_half_width, d.stab_cherry_wing_bottom_x>>,
          <<x + d.stab_cherry_half_width, d.stab_cherry_bottom_x>>,
          <<x + d.stab_cherry_bottom_wing_half_width, d.stab_cherry_bottom_x>>,
          <<x + d.stab_cherry_bottom_wing_half_width, d.stab_12>>,
          <<x - d.stab_cherry_bottom_wing_half_width, d.stab_12>>,
          <<x - d.stab_cherry_bottom_wing_half_width, d.stab_cherry_bottom_x>>,
          <<x - d.stab_cherry_half_width, d.stab_cherry_bottom_x>>,
          <<x - d.stab_cherry_half_width, d.stab_y_wire>>,
          <<-x + d.stab_cherry_half_width, d.stab_y_wire>>,
          <<-x + d.stab_cherry_half_width, d.stab_cherry_bottom_x>>,
          <<-x + d.stab_cherry_bottom_wing_half_width, d.stab_cherry_bottom_x>>,
          <<-x + d.stab_cherry_bottom_wing_half_width, d.stab_12>>,
          <<-x - d.stab_cherry_bottom_wing_half_width, d.stab_12>>,
          <<-x - d.stab_cherry_bottom_wing_half_width, d.stab_cherry_bottom_x>>,
          <<-x - d.stab_cherry_half_width, d.stab_cherry_bottom_x>>,
          <<-x - d.stab_cherry_half_width, d.stab_cherry_wing_bottom_x>>,
          <<-x - d.stab_cherry_outside_x, d.stab_cherry_wing_bottom_x>>,
          <<-x - d.stab_cherry_outside_x, -d.stab_y_wire>>,
          <<-x - d.stab_cherry_half_width, -d.stab_y_wire>>,
          <<-x - d.stab_cherry_half_width, -d.stab_cherry_top_x>>,
          <<-x - d.stab_cherry_bottom_wing_half_width, -d.stab_cherry_top_x>>,
          <<-x - d.stab_cherry_bottom_wing_half_width, -d.stab_5>>,
          <<-x + d.stab_cherry_bottom_wing_half_width, -d.stab_5>>,
          <<-x + d.stab_cherry_bottom_wing_half_width, -d.stab_cherry_top_x>>,
          <<-x + d.stab_cherry_half_width, -d.stab_cherry_top_x>>,
          <<-x + d.stab_cherry_half_width, -d.stab_y_wire>>,
          <<x - d.stab_cherry_half_width, -d.stab_y_wire>> >> >>

\* lines 1111-1141: the spacebar cherry stabiliser, one polygon
StabBarCherry(d, x) ==
    << << <<x - d.stab_cherry_half_width, -d.stab_y_wire>>,
          <<x - d.stab_cherry_half_width, -d.stab_cherry_top_x>>,
          <<x + d.stab_cherry_half_width, -d.stab_cherry_top_x>>,
          <<x + d.stab_cherry_half_width, -d.stab_y_wire>>,
          <<x + d.stab_cherry_outside_x, -d.stab_y_wire>>,
          <<x + d.stab_cherry_outside_x, d.stab_cherry_wing_bottom_x>>,
          <<x + d.stab_cherry_half_width, d.stab_cherry_wing_bottom_x>>,
          <<x + d.stab_cherry_half_width, d.stab_cherry_bottom_x>>,
          <<x + d.stab_cherry_bottom_wing_half_width, d.stab_cherry_bottom_x>>,
          <<x + d.stab_cherry_bottom_wing_half_width, d.stab_cherry_bottom_wing_bottom_y>>,
          <<x - d.stab_cherry_bottom_wing_half_width, d.stab_cherry_bottom_wing_bottom_y>>,
          <<x - d.stab_cherry_bottom_wing_half_width, d.stab_cherry_bottom_x>>,
          <<x - d.stab_cherry_half_width, d.stab_cherry_bottom_x>>,
          <<x - d.stab_cherry_half_width, d.stab_bottom_y_wire>>,
          <<-x + d.stab_cherry_half_width, d.stab_bottom_y_wire>>,
          <<-x + d.stab_cherry_half_width, d.stab_cherry_bottom_x>>,
          <<-x + d.stab_cherry_bottom_wing_half_width, d.stab_cherry_bottom_x>>,
          <<-x + d.stab_cherry_bottom_wing_half_width, d.stab_cherry_bottom_wing_bottom_y>>,
          <<-x - d.stab_cherry_bottom_wing_half_width, d.stab_cherry_bottom_wing_bottom_y>>,
          <<-x - d.stab_cherry_bottom_wing_half_width, d.stab_cherry_bottom_x>>,
          <<-x - d.stab_cherry_half_width, d.stab_cherry_bottom_x>>,
          <<-x - d.stab_cherry_half_width, d.stab_cherry_wing_bottom_x>>,
          <<-x - d.stab_cherry_outside_x, d.stab_cherry_wing_bottom_x>>,
          <<-x - d.stab_cherry_outside_x, -d.stab_y_wire>>,
          <<-x - d.stab_cherry_half_width, -d.stab_y_wire>>,
          <<-x - d.stab_cherry_half_width, -d.stab_cherry_top_x>>,
          <<-x + d.stab_cherry_half_width, -d.stab_cherry_top_x>>,
          <<-x + d.stab_cherry_half_width, -d.stab_y_wire>>,
          <<x - d.stab_cherry_half_width, -d.stab_y_wire>> >> >>

\* lines 1148-1161: the spacebar costar / matias stabiliser: points_l, points_r
StabBarCostar(d, x) ==
    << << <<-x + d.stab_cherry_bottom_wing_half_width, -d.stab_5>>,
          <<-x - d.stab_cherry_bottom_wing_half_width, -d.stab_5>>,
          <<-x - d.stab_cherry_bottom_wing_half_width, d.stab_12>>,
          <<-x + d.stab_cherry_bottom_wing_half_width, d.stab_12>>,
          <<-x + d.stab_cherry_bottom_wing_half_width, -d.stab_5>> >>,
       << <<x - d.stab_cherry_bottom_wing_half_width, -d.stab_5>>,
          <<x + d.stab_cherry_bottom_wing_half_width, -d.stab_5>>,
          <<x + d.stab_cherry_bottom_wing_half_width, d.stab_12>>,
          <<x - d.stab_cherry_bottom_wing_half_width, d.stab_12>>,
          <<x - d.stab_cherry_bottom_wing_half_width, -d.stab_5>> >> >>

\* lines 1179-1192: the two slots of the spacebar alps stabiliser: points_l,
\* points_r
StabBarAlpsSlots(d, inside_x, outside_x) ==
    << << <<-inside_x, d.alps_stab_top_y>>,
          <<-outside_x, d.alps_stab_top_y>>,
          <<-outside_x, d.alps_stab_bottom_y>>,
          <<-inside_x, d.alps_stab_bottom_y>>,
          <<-inside_x, d.alps_stab_top_y>> >>,
       << <<inside_x, d.alps_stab_top_y>>, <<outside_x, d.alps_stab_top_y>>,
          <<outside_x, d.alps_stab_bottom_y>>,
          <<inside_x, d.alps_stab_bottom_y>>,
          <<inside_x, d.alps_stab_top_y>> >> >>

----------------------------------------------------------------------------
(* cut_switch. *)

\* rotate_points(points, 90, (0,0)): (x, y) -> (-y, x), taken exactly
Rotate90(points) ==
    [i \in 1..Len(points) |-> <<-points[i][2], points[i][1]>>]

\* rotate_points(points, degrees, (0,0)) for the quarter turns; a key of the
\* model carries no _r or _rs, so no other angle is asked for
RotatePoints(points, degrees) ==
    IF degrees = 90 THEN Rotate90(points)
    ELSE IF degrees = 180 THEN Rotate90(Rotate90(points))
    ELSE IF degrees = 270 THEN Rotate90(Rotate90(Rotate90(points)))
    ELSE points

\* lines 797-900: the switch body of a switch family; an unknown family
\* leaves points empty
SwitchPoints(switch, d) ==
    IF switch = "mx" THEN SwitchMx(d)
    ELSE IF switch = "alpsmx" THEN SwitchAlpsMx(d)
    ELSE IF switch = "mx-open" THEN SwitchMxOpen(d)
    ELSE IF switch = "mx-open-rotatable" THEN SwitchMxOpenRotatable(d)
    ELSE IF switch = "alps" THEN SwitchAlps(d)
    ELSE << >>

\* lines 921, 1064: which stabiliser section a key reaches
StabSection(w, h, rotate) ==
    IF (w >= 8 /\ w < 12) \/ (rotate /\ h >= 8 /\ h < 12) THEN "2u"
    ELSE IF w >= 12 \/ (rotate /\ h >= 12) THEN "bar"
    ELSE "none"

\* lines 1172-1178: the spacebar alps stabiliser; outside_x takes the kerf of
\* the keyboard, self.kerf
StabBarAlps(d, w) ==
    LET inside_x == d.alps_stab_inside_x + (IF w = 26 THEN 3130000 ELSE 3000000)
    IN  StabBarAlpsSlots(d, inside_x, inside_x + 270000 - kerf * 2)

\* lines 921-1203: the stabiliser polygons of a key, in the order they are
\* drawn, and what is logged
StabPolygons(section, stab, d, x, w) ==
    LET unknown == [polygons |-> << >>, log |-> <<"Unknown stab type">>]
        cut(polygons) == [polygons |-> polygons, log |-> << >>]
    IN  IF section = "2u"
        THEN IF stab = "cherry-costar" THEN cut(Stab2CherryCostar(d))
             ELSE IF stab = "cherry" THEN cut(Stab2Cherry(d))
             ELSE IF stab = "costar" THEN cut(Stab2Costar(d))
             ELSE IF stab \in {"alps", "matias"} THEN cut(Stab2Alps(d))
             ELSE unknown
        ELSE IF section = "bar"
        THEN IF stab = "cherry-costar" THEN cut(StabBarCherryCostar(d, x))
             ELSE IF stab = "cherry" THEN cut(StabBarCherry(d, x))
             ELSE IF stab \in {"costar", "matias"} THEN cut(StabBarCostar(d, x))
             ELSE IF stab = "alps"
             THEN [polygons |-> StabBarAlps(d, w),
                   log |-> IF w = 26 THEN << >>
                           ELSE <<"We don't know how far apart stabs are">>]
             ELSE unknown
        ELSE cut(<< >>)

\* lines 697-709, 781-789: what cut_switch derives from the key
KeyFacts(key, layer) ==
    LET w == Get(key, "w", 4)
        h == Get(key, "h", 4)
        rotate == Has(key, "h") /\ h > w
        length == IF rotate THEN h ELSE w
        known == length \in DOMAIN STABILIZERS
        co == Get(key, "_co", 0)
    IN  [width |-> w,
         height |-> h,
         switch_type |-> IF layer = "top" THEN "mx" ELSE Get(key, "_t", switch_type),
         stab_type |-> IF layer = "top" THEN "cherry" ELSE Get(key, "_s", stab_type),
         kerf |-> IF Has(key, "_k") THEN key._k \div 2 ELSE kerf,
         rotate |-> rotate,
         x |-> IF known THEN STABILIZERS[length][1] ELSE STABILIZERS[8][1],
         center_offset |-> IF length >= 8 /\ co = 0
                           THEN IF known THEN STABILIZERS[length][2] ELSE 0
                           ELSE co]

\* lines 902-905, 971-974: the quarter turn of a vertical key
Turned(points, rotate) == IF rotate THEN RotatePoints(points, 90) ELSE points

\* lines 913-1203: the stabiliser cut of a key that is not on the top layer
CutStabilizer(s, f, d) ==
    LET st == StabPolygons(StabSection(f.width, f.height, f.rotate), f.stab_type,
                           d, f.x, f.width)
        turned == [i \in 1..Len(st.polygons) |-> Turned(st.polygons[i], f.rotate)]
    IN  [s EXCEPT
           !.plate = IF turned = << >> THEN @ ELSE CutThruAll(Polylines(@, turned, 1)),
           !.log = @ \o st.log]

\* lines 791-795: the untracked move to an offset switch hole
OffsetMove(p, center_offset) ==
    IF center_offset > 0 THEN PlateCenter(p, center_offset, 0) ELSE p

\* a cut_switch that never makes the move back
OffsetMoveBackLost(p, center_offset) == p

\* lines 909-911: the untracked move back
OffsetMoveBack(p, center_offset) ==
    IF center_offset > 0 THEN PlateCenter(p, -center_offset, 0) ELSE p

\* cut_switch without the early return of the top layer
CutSwitchStabOnTop(s, switch_coord, key, layer) ==
    LET f == KeyFacts(key, layer)
        d == Dims(f.kerf, f.width, f.height, layer)
        points == Turned(SwitchPoints(f.switch_type, d), f.rotate)
        s1 == [s EXCEPT !.plate = OffsetMove(@, f.center_offset)]
        s2 == Center(s1, switch_coord[1], switch_coord[2])
        s3 == [s2 EXCEPT !.plate = OffsetMoveBack(CutThruAll(Polyline(@, points)),
                                                  f.center_offset)]
        s4 == CutStabilizer(s3, f, d)
    IN  [s4 EXCEPT !.x_off = @ + switch_coord[1]]

\* cut_switch whose early return of the top layer leaves x_off alone
CutSwitchTopKeepsXOff(s, switch_coord, key, layer) ==
    LET f == KeyFacts(key, layer)
        d == Dims(f.kerf, f.width, f.height, layer)
        points == Turned(SwitchPoints(f.switch_type, d), f.rotate)
        s1 == [s EXCEPT !.plate = OffsetMove(@, f.center_offset)]
        s2 == Center(s1, switch_coord[1], switch_coord[2])
        s3 == [s2 EXCEPT !.plate = OffsetMoveBack(CutThruAll(Polyline(@, points)),
                                                  f.center_offset)]
    IN  IF layer = "top" THEN s3
        ELSE [CutStabilizer(s3, f, d) EXCEPT !.x_off = @ + switch_coord[1]]

\* KeyboardCase.cut_switch; x_off follows every move along the row
CutSwitch(s, switch_coord, key, layer) ==
    LET f == KeyFacts(key, layer)
        d == Dims(f.kerf, f.width, f.height, layer)
        points == Turned(SwitchPoints(f.switch_type, d), f.rotate)
        s1 == [s EXCEPT !.plate = OffsetMove(@, f.center_offset)]
        s2 == Center(s1, switch_coord[1], switch_coord[2])
        s3 == [s2 EXCEPT !.plate = OffsetMoveBack(CutThruAll(Polyline(@, points)),
                                                  f.center_offset)]
        s4 == IF layer = "top" THEN s3 ELSE CutStabilizer(s3, f, d)
    IN  [s4 EXCEPT !.x_off = @ + switch_coord[1]]

----------------------------------------------------------------------------
(* create_switch_layer, one key at a time.  Rows and keys are counted from *)
(* 1 here (r == 0 and k == 0 in the source is r = 1 and k = 1).            *)

\* most layer builds in one run of the model
MaxBuilds == 2

\* the layers create_switch_layer is made for
SwitchLayers == {"switch", "reinforcing", "top"}

RECURSIVE FirstKeyFrom(_)
\* enumerate(self.layout): the first row from r on that holds a key, or 0
FirstKeyFrom(r) ==
    IF r > Len(layout) THEN 0
    ELSE IF Len(layout[r]) > 0 THEN r
    ELSE FirstKeyFrom(r + 1)

\* the position after key k of row r in the two for loops: <<r, k>>, or
\* <<0, 0>> when the loops are over
NextKey(r, k) ==
    IF k < Len(layout[r]) THEN <<r, k + 1>>
    ELSE LET n == FirstKeyFrom(r + 1) IN IF n = 0 THEN <<0, 0>> ELSE <<n, 1>>

\* the body of the key loop without lines 218-220: the offset of a tall
\* key is not taken back at the next key
KeyStepKeepsDrop(s, l, r, k, layer) ==
    LET key == layout[r][k]
        ks == key_spacing
        kx == IF Has(key, "x") THEN (key.x * ks) \div 4 ELSE 0
        ky == IF Has(key, "y") /\ k = 1 THEN (key.y * ks) \div 4 ELSE 0
        half == (key.w * ks) \div 8
        first == r = 1 /\ k = 1
        s1 == IF first THEN Center(s, half, ks \div 2)
              ELSE IF k = 1 THEN Center(s, -s.x_off, ks)
              ELSE s
        x == IF first THEN kx + (x_pad + x_pcb_pad)
             ELSE IF k = 1 THEN kx + ks \div 2 + half
             ELSE kx + (l.prev_width * ks) \div 8 + half
        s2 == IF first
              THEN [s1 EXCEPT !.x_off = -(x - (ks \div 2 + half) - kx)]
              ELSE IF k = 1 THEN [s1 EXCEPT !.x_off = 0]
              ELSE s1
        y1 == IF first THEN ky + (y_pad + y_pcb_pad) ELSE ky
        tall == Has(key, "h") /\ key.h > 4
        y_off == IF tall THEN (key.h * ks) \div 8 - ks \div 2 ELSE 0
    IN  [self |-> CutSwitch(s2, <<x, y1 + y_off>>, key, layer),
         prev_width |-> key.w,
         prev_y_off |-> y_off]

\* lines 199-230: the body of the key loop for key k of row r; l holds the
\* locals prev_width and prev_y_off
KeyStep(s, l, r, k, layer) ==
    LET key == layout[r][k]
        ks == key_spacing
        kx == IF Has(key, "x") THEN (key.x * ks) \div 4 ELSE 0
        ky == IF Has(key, "y") /\ k = 1 THEN (key.y * ks) \div 4 ELSE 0
        half == (key.w * ks) \div 8
        first == r = 1 /\ k = 1
        s1 == IF first THEN Center(s, half, ks \div 2)
              ELSE IF k = 1 THEN Center(s, -s.x_off, ks)
              ELSE s
        x == IF first THEN kx + (x_pad + x_pcb_pad)
             ELSE IF k = 1 THEN kx + ks \div 2 + half
             ELSE kx + (l.prev_width * ks) \div 8 + half
        s2 == IF first
              THEN [s1 EXCEPT !.x_off = -(x - (ks \div 2 + half) - kx)]
              ELSE IF k = 1 THEN [s1 EXCEPT !.x_off = 0]
              ELSE s1
        y1 == (IF first THEN ky + (y_pad + y_pcb_pad) ELSE ky) - l.prev_y_off
        tall == Has(key, "h") /\ key.h > 4
        y_off == IF tall THEN (key.h * ks) \div 8 - ks \div 2 ELSE 0
    IN  [self |-> CutSwitch(s2, <<x, y1 + y_off>>, key, layer),
         prev_width |-> key.w,
         prev_y_off |-> y_off]

\* the fields of self a build leaves changed
Store(s) ==
    /\ plate' = s.plate
    /\ origin' = s.origin
    /\ x_off' = s.x_off
    /\ x_holes' = s.x_holes
    /\ y_holes' = s.y_holes
    /\ layer_screw' = s.layer_screw
    /\ log' = s.log

\* lines 190-195: create_switch_layer up to the key loop
create_switch_layer(layer) ==
    /\ pc = "idle"
    /\ Len(built) < MaxBuilds
    /\ layer \in DOMAIN layers
    /\ LET s == InitPlate(Self, layer)
           n == FirstKeyFrom(1)
       IN  /\ Store(Center(s, -(width \div 2), -(height \div 2)))
           /\ frame' = [layer |-> layer, r |-> n, k |-> IF n = 0 THEN 0 ELSE 1,
                        prev_width |-> None, prev_y_off |-> 0]
    /\ pc' = "keys"
    /\ UNCHANGED <<config_vars, size_vars, built, export_vars>>

\* lines 197-230: one turn of the key loop
switch_key ==
    /\ pc = "keys"
    /\ frame.r # 0
    /\ LET t == KeyStep(Self, frame, frame.r, frame.k, frame.layer)
           n == NextKey(frame.r, frame.k)
       IN  /\ Store(t.self)
           /\ frame' = [frame EXCEPT !.r = n[1], !.k = n[2],
                                     !.prev_width = t.prev_width,
                                     !.prev_y_off = t.prev_y_off]
    /\ UNCHANGED <<pc, config_vars, size_vars, built, export_vars>>

\* lines 232-233: recenter and return the plate with everything cut
switch_layer_done ==
    /\ pc = "keys"
    /\ frame.r = 0
    /\ LET s == Recenter(Self)
           done == [s EXCEPT !.plate = CutThruAll(@)]
       IN  /\ Store(done)
           /\ built' = Append(built, [layer |-> frame.layer, kerf |-> kerf,
                                       plate |-> done.plate])
    /\ pc' = "idle"
    /\ frame' = << >>
    /\ UNCHANGED <<config_vars, size_vars, export_vars>>

----------------------------------------------------------------------------
(* The keyboards of the model: a configuration row and row lists. *)

\* the three switch based layers, without options
PlainLayers == [l \in SwitchLayers |-> << >>]

\* the row lists the built keyboards are made of: two plain keys; a 2-unit
\* key and two plain keys; an offset key, a 6-unit key (its switch is cut off
\* centre) and a plain key; a key two rows tall and a plain key; no key
BuildRows ==
    { <<Plain, Plain>>,
      <<Desc([w |-> 8]), Plain, Plain>>,
      <<Desc([x |-> 2, y |-> 2]), Plain, Desc([w |-> 24]), Plain, Plain>>,
      <<Desc([h |-> 8]), Plain, Plain>>,
      << >> }

BuildLayouts ==
    UNION {[1..m -> {[type |-> "list", val |-> r] : r \in BuildRows}] : m \in 1..MaxRows}

\* configuration rows that set sizes: none; kerf 0.1, padding and pcb padding
SizeConfigs ==
    { [layers |-> PlainLayers],
      [layers |-> PlainLayers, kerf |-> 10000, padding |-> <<500000, 300000>>,
       pcb_padding |-> <<200000, 400000>>] }

\* the screw counts of the sandwich cases of the model: 3 and 5 are invalid
ScrewCounts == {3, 4, 5, 6, 8, 10}

\* per-layer options of a sandwich case: the switch layer overrides the screw
\* count, the top layer the screw radius
SandwichLayers ==
    [switch |-> [screw |-> [count |-> 5]], reinforcing |-> << >>,
     top |-> [screw |-> [radius |-> 150000]]]

\* configuration rows of the sandwich cases: every screw count, with a kerf or
\* without; and one whose layers override the screw
SandwichConfigs ==
    { [layers |-> PlainLayers, case_type |-> "sandwich", kerf |-> k,
       screw |-> [count |-> n, radius |-> 200000]] :
         n \in ScrewCounts, k \in {0, 10000} }
    \cup { [layers |-> SandwichLayers, case_type |-> "sandwich",
            screw |-> [count |-> 8, radius |-> 200000]] }

\* the layouts the sandwich cases are built with: a wide plate and a tall one
SandwichLayouts ==
    { << [type |-> "list", val |-> <<Plain, Plain, Plain, Plain>>] >>,
      << [type |-> "list", val |-> <<Plain>>],
         [type |-> "list", val |-> <<Desc([h |-> 8]), Plain>>] >> }

\* the keyboards: every layout under each size configuration, and the sandwich
\* cases
Keyboards ==
    {<<[type |-> "dict", val |-> c]>> \o l : c \in SizeConfigs, l \in BuildLayouts}
    \cup {<<[type |-> "dict", val |-> c]>> \o l :
             c \in SandwichConfigs, l \in SandwichLayouts}

Init ==
    /\ pc = "new"
    /\ keyboard_layout \in Keyboards
    /\ InitFields
    /\ formats = DefaultFormats

Next ==
    \/ parse_layout
    \/ \E layer \in SwitchLayers : create_switch_layer(layer)
    \/ switch_key
    \/ switch_layer_done

\* a keyboard is constructed, then layers are built one after the other
Spec == Init /\ [][Next]_vars


----------------------------------------------------------------------------
(* Cursor closure and key positions. *)

\* a switch layer has just been built and returned
Returned == pc = "idle" /\ Len(built) > 0

\* the 6-unit key, whose switch is cut off centre, is in the layout
HasOffsetKey ==
    \E r \in 1..Len(layout) : \E k \in 1..Len(layout[r]) : layout[r][k].w = 24

\* C1: when create_switch_layer returns, origin is (0,0) and the working
\* point of the plate is back at the centre of the plate: the moves made
\* through center(), by recenter() and inside cut_switch add up to nothing
C1_CursorCloses ==
    Returned => /\ origin = <<0, 0>>
                /\ plate.pos = <<0, 0, 0, 0>>
                /\ built[Len(built)].plate.pos = <<0, 0, 0, 0>>

\* a layer with a 6-unit key in it has been built
C1_Witness == Returned /\ HasOffsetKey /\ Len(plate.cut) >= 3

\* every row of the layout holds a key
RowsHoldKeys == \A r \in 1..Len(layout) : Len(layout[r]) > 0

RECURSIVE UnitsBefore(_, _)
\* the w and x of the keys before key k of a row, in quarter units
UnitsBefore(row, k) ==
    IF k <= 1 THEN 0
    ELSE UnitsBefore(row, k - 1) + row[k - 1].w + Get(row[k - 1], "x", 0)

\* -width/2 + x_pad + x_pcb_pad + key_spacing * (the w and x of the keys
\* before + own x + w/2)
KeyCentreX(r, k) ==
    LET key == layout[r][k]
    IN  -(width \div 2) + x_pad + x_pcb_pad
        + ((UnitsBefore(layout[r], k) + Get(key, "x", 0)) * key_spacing) \div 4
        + (key.w * key_spacing) \div 8

\* C2: in a layout whose rows each hold a key, on every switch based layer,
\* the key at any index of any row is cut with its centre at
\* x = -width/2 + x_pad + x_pcb_pad + key_spacing * (w and x of the keys
\* before it in its row + its own x + w/2): the switch body is cut there
\* (moved by the key's switch offset), every stabiliser polygon is cut there,
\* and the working point is left there
C2_KeyCentre ==
    [][pc = "keys" /\ frame.r # 0 /\ RowsHoldKeys
         => LET x == KeyCentreX(frame.r, frame.k)
                off == KeyFacts(layout[frame.r][frame.k], frame.layer).center_offset
                n == Len(plate.cut)
            IN  /\ plate'.pos[1] = x
                /\ Len(plate'.cut) > n
                /\ plate'.cut[n + 1].at[1] = x + off
                /\ \A i \in (n + 2)..Len(plate'.cut) : plate'.cut[i].at[1] = x]_vars

\* the first key of a second row has been cut in the column of the first key
\* of the first row, after a first row that holds the 6-unit key
C2_Witness ==
    /\ pc = "keys"
    /\ RowsHoldKeys
    /\ HasOffsetKey
    /\ frame.r = 2
    /\ frame.k = 2
    /\ layout[1][1].w = layout[2][1].w
    /\ plate.pos[1] = KeyCentreX(1, 1)


----------------------------------------------------------------------------
(* Building a layer twice. *)

\* C5: building the same layer twice in succession on the same KeyboardCase
\* yields the same geometry both times: the same base plate and the same
\* cuts at the same places
C5_SameLayerTwice ==
    \A i \in 1..(Len(built) - 1) :
       built[i].layer = built[i + 1].layer => built[i].plate = built[i + 1].plate

\* the same, for the layouts whose first row holds a key
C5_SameLayerTwiceFirstRowHoldsKey ==
    (Len(layout) > 0 /\ Len(layout[1]) > 0) => C5_SameLayerTwice

----------------------------------------------------------------------------
(* The screw holes of a sandwich case. *)

\* the circles cut or drawn in the plate, in order
Circles == SelectSeq(plate.cut \o plate.pending, LAMBDA c : c.kind = "circle")

\* init_plate has run for a layer of a sandwich case that is not inset
SandwichBuild ==
    /\ case_type = "sandwich"
    /\ pc = "keys"
    /\ ~Opt(frame.layer, "inset", FALSE)

\* the places of the hole rectangle, in gap steps from its first corner
HoleRectangle(nx, ny) ==
    {<<i, j>> \in (0..nx) \X (0..ny) : i \in {0, nx} \/ j \in {0, ny}}

\* C6: for an even screw count N >= 4 on a layer that is not inset,
\* init_plate cuts exactly N screw holes, one at each corner of the hole
\* rectangle, x_holes more on each horizontal side and y_holes more on each
\* vertical side, x_holes + y_holes = (N - 4) / 2, and the walk ends where
\* it started
C6_SandwichHoles ==
    (SandwichBuild /\ ValidHoles(layer_screw.count))
      => LET N == layer_screw.count
             nx == x_holes + 1
             ny == y_holes + 1
             hd == screw.radius * 2 - 50000 - kerf
             x0 == -(width \div 2) + kerf + hd
             y0 == -(height \div 2) + kerf + hd
         IN  /\ Len(Circles) = N
             /\ 2 * (x_holes + y_holes) = N - 4
             /\ {<<c.at[3], c.at[4]>> : c \in {Circles[i] : i \in 1..N}}
                  = HoleRectangle(nx, ny)
             /\ Cardinality(HoleRectangle(nx, ny)) = N
             /\ \A i \in 1..N : /\ Circles[i].at[1] = x0
                                /\ Circles[i].at[2] = y0
                                /\ Circles[i].radius = layer_screw.radius - kerf
             /\ Circles[1].at = <<x0, y0, 1, 0>>
             /\ Circles[N].at = <<x0, y0, 0, 0>>

\* a layer with ten screw holes, some on each side, has its holes
C6_Witness ==
    /\ SandwichBuild
    /\ layer_screw.count = 10
    /\ x_holes > 0
    /\ Len(Circles) = 10

\* C9: when the effective screw count of a sandwich case is below 4 or odd,
\* a diagnostic is logged and init_plate cuts no screw hole in that build
C9_InvalidCountNoHoles ==
    (SandwichBuild /\ ~ValidHoles(layer_screw.count))
      => /\ Len(Circles) = 0
         /\ \E i \in 1..Len(log) :
               log[i] \in {"Invalid hole configuration", "Not adding holes",
                           "Need at least 4 screws for a sandwich case"}

\* the same, for the counts below 4 only
C9_CountBelowFourNoHoles ==
    (SandwichBuild /\ layer_screw.count < 4) => C9_InvalidCountNoHoles


----------------------------------------------------------------------------
(* One key cut under one kerf and then under a larger one: a keyboard of   *)
(* one key, of one switch based layer, whose kerf is raised between two    *)
(* builds of the layer.                                                    *)

\* the largest self.kerf of these keyboards, 0.2 mm
MaxKerf == 20000

\* a raise of self.kerf, 0.1 mm
KerfSteps == {10000}

\* the switch families and the stabiliser families
SwitchTypes == {"mx", "alpsmx", "mx-open", "mx-open-rotatable", "alps"}

StabTypes == {"cherry", "costar", "cherry-costar", "matias", "alps"}

\* the sizes of the key: 1, 1 by 2, 2, 2.75, 3, 6, 6.5 units, and 2 by 3
CutShapes ==
    { [w |-> 4], [w |-> 4, h |-> 8], [w |-> 8], [w |-> 11], [w |-> 12],
      [w |-> 24], [w |-> 26], [w |-> 8, h |-> 12] }

\* the keys that carry their own switch, stabiliser and kerf (_k is the kerf
\* of both edges, 0.1 mm)
OwnKerfKeys ==
    { s @@ [_t |-> "mx", _s |-> st, _k |-> 10000] :
        s \in {[w |-> 4], [w |-> 24], [w |-> 26]}, st \in {"cherry", "alps"} }

\* the configuration rows: one layer, a switch and a stabiliser family, and
\* for the 1 unit key a growth of the mx opening as well
CutKeyboards ==
    { << [type |-> "dict",
          val |-> [layers |-> [l \in {layer} |-> << >>], switch |-> t,
                   stabilizer |-> st]],
         [type |-> "list", val |-> <<Desc(s), Plain>>] >> :
        layer \in SwitchLayers, t \in SwitchTypes, st \in StabTypes,
        s \in CutShapes }
    \cup
    { << [type |-> "dict",
          val |-> [layers |-> [l \in {layer} |-> << >>], switch |-> t,
                   grow_x |-> 50000, grow_y |-> 50000]],
         [type |-> "list", val |-> <<Plain>>] >> :
        layer \in SwitchLayers, t \in SwitchTypes }
    \cup
    { << [type |-> "dict", val |-> [layers |-> [l \in {layer} |-> << >>]]],
         [type |-> "list", val |-> <<Desc(s), Plain>>] >> :
        layer \in SwitchLayers, s \in OwnKerfKeys }

InitCut ==
    /\ pc = "new"
    /\ keyboard_layout \in CutKeyboards
    /\ InitFields
    /\ formats = DefaultFormats

\* self.kerf is set to a larger value between two calls
kerf_raised ==
    /\ pc = "idle"
    /\ \E d \in KerfSteps : /\ kerf + d <= MaxKerf
                            /\ kerf' = kerf + d
    /\ UNCHANGED <<pc, frame, log, keyboard_layout, layout, case_type,
                   corner_type, corners, feet, key_spacing, screw, stab_type,
                   switch_type, x_pad, x_pcb_pad, y_pad, y_pcb_pad, layers,
                   grow_x, grow_y, size_vars, engine_vars, built, export_vars>>

NextCut ==
    \/ parse_layout
    \/ \E layer \in SwitchLayers : create_switch_layer(layer)
    \/ switch_key
    \/ switch_layer_done
    \/ kerf_raised

SpecCut == InitCut /\ [][NextCut]_vars

\* the effective kerf of the key of these keyboards in build i
EffectiveKerf(i) == KeyFacts(layout[1][1], built[i].layer).kerf

\* the effective kerf the key had when build i was made
BuiltKerf(i) ==
    IF Has(layout[1][1], "_k") THEN EffectiveKerf(i) ELSE built[i].kerf

\* the polygons of build i, in the order they were cut: the switch body
\* first, then the stabiliser polygons
Polygons(i) == SelectSeq(built[i].plate.cut, LAMBDA c : c.kind = "polyline")

Abs(n) == IF n < 0 THEN -n ELSE n

\* every coordinate of polygon q is the one of polygon p moved by d
MovedBy(p, q, d) ==
    /\ Len(p) = Len(q)
    /\ \A m \in 1..Len(p) : \A c \in 1..2 : Abs(q[m][c] - p[m][c]) = d

\* C3: on the switch layer every vertex coordinate of the switch polygon and
\* of every stabiliser polygon (2-unit and spacebar templates) is a nominal
\* constant plus or minus the effective kerf: between two cuts of the same
\* key each coordinate moves by exactly the change of the effective kerf
C3_EveryCoordinateMovesByKerf ==
    \A i, j \in 1..Len(built) :
       (i < j /\ built[i].layer = "switch" /\ built[j].layer = "switch")
         => /\ Len(Polygons(i)) = Len(Polygons(j))
            /\ \A n \in 1..Len(Polygons(i)) :
                  MovedBy(Polygons(i)[n].points, Polygons(j)[n].points,
                          BuiltKerf(j) - BuiltKerf(i))


\* the bounding box of a polygon: <<least x, least y, greatest x, greatest y>>
BoundingBox(points) ==
    LET xs == {points[m][1] : m \in 1..Len(points)}
        ys == {points[m][2] : m \in 1..Len(points)}
    IN  <<-MaxOf({-x : x \in xs}), -MaxOf({-y : y \in ys}), MaxOf(xs), MaxOf(ys)>>

\* the switch body of build i
SwitchBody(i) == Polygons(i)[1].points

\* C4: for each switch family, key size and switch based layer, and kerfs up
\* to MaxKerf, raising the effective kerf by d shrinks the bounding box of
\* the switch body polygon by exactly 2d in x and by exactly 2d in y; and the
\* 1 unit mx key on the switch layer with no growth is cut as the closed
\* 5 point rectangle with corners (+-(7 - kerf), +-(7 - kerf))
C4_BoundingBoxShrinks ==
    /\ \A i, j \in 1..Len(built) :
          (i < j /\ built[i].layer = built[j].layer)
            => LET a == BoundingBox(SwitchBody(i))
                   b == BoundingBox(SwitchBody(j))
                   d == BuiltKerf(j) - BuiltKerf(i)
               IN  b = <<a[1] + d, a[2] + d, a[3] - d, a[4] - d>>
    /\ \A i \in 1..Len(built) :
          LET f == KeyFacts(layout[1][1], built[i].layer)
              e == 700000 - BuiltKerf(i)
          IN  (/\ built[i].layer = "switch"
               /\ f.switch_type = "mx"
               /\ f.width = 4
               /\ f.height = 4
               /\ grow_x = 0
               /\ grow_y = 0)
                => SwitchBody(i) = << <<e, -e>>, <<e, e>>, <<-e, e>>, <<-e, -e>>,
                                      <<e, -e>> >>

\* a 1 unit mx key has been cut on the switch layer under kerf 0 and then
\* under kerf 0.2
C4_Witness ==
    /\ Len(built) = 2
    /\ built[1].layer = "switch"
    /\ built[2].layer = "switch"
    /\ built[1].kerf = 0
    /\ built[2].kerf = 20000
    /\ switch_type = "mx"
    /\ layout[1][1] = [w |-> 4, h |-> 4]
    /\ grow_x = 0
    /\ SwitchBody(2)[1] = <<680000, -680000>>


----------------------------------------------------------------------------
(* layout_sandwich_holes, one turn of its loop at a time, for plates of    *)
(* given sides.                                                            *)

\* the largest screw count of these plates
MaxScrews == 12

\* the sides of these plates: 100, 200 and 300 mm
PlateSides == {10000000, 20000000, 30000000}

\* a sandwich case about to lay out the holes of a layer: the fields are as
\* __init__ leaves them, but for the sizes, the kerf and the screw count
InitHoles ==
    /\ pc = "holes"
    /\ keyboard_layout = << >>
    /\ frame = << >>
    /\ log = << >>
    /\ layout = << >>
    /\ case_type = "sandwich"
    /\ corner_type = None
    /\ corners = 0
    /\ feet = NoFeet
    /\ kerf \in {0, 10000}
    /\ key_spacing = 1905000
    /\ \E n \in 0..MaxScrews :
          /\ screw = [count |-> n, radius |-> 200000]
          /\ layer_screw = screw
    /\ stab_type = "cherry"
    /\ switch_type = "mx"
    /\ x_pad = 0
    /\ x_pcb_pad = 0
    /\ y_pad = 0
    /\ y_pcb_pad = 0
    /\ layers = DefaultLayers
    /\ grow_x = 0
    /\ grow_y = 0
    /\ width \in PlateSides
    /\ height \in PlateSides
    /\ inside_width = width - kerf * 2
    /\ inside_height = height - kerf * 2
    /\ horizontal_edge = width \div 2
    /\ vertical_edge = height \div 2
    /\ plate = NoPlate
    /\ origin = <<0, 0>>
    /\ x_off = 0
    /\ x_holes = 0
    /\ y_holes = 0
    /\ built = << >>
    /\ formats = DefaultFormats
    /\ exports = << >>

\* what layout_sandwich_holes leaves alone
holes_unchanged ==
    UNCHANGED <<config_vars, size_vars, layer_screw, plate, origin, x_off, built,
                export_vars>>

\* lines 641-648: the count is even and at least 4, the loop is entered
layout_sandwich_holes_enter ==
    /\ pc = "holes"
    /\ layer_screw.count >= 4
    /\ ValidHoles(layer_screw.count)
    /\ frame' = [x |-> width + kerf * 2, y |-> height + kerf * 2,
                 _x |-> 0, _y |-> 0, free |-> (layer_screw.count - 4) \div 2,
                 f |-> 0]
    /\ pc' = "placing"
    /\ UNCHANGED <<log, x_holes, y_holes>>
    /\ holes_unchanged

\* lines 641, 643, 661-662: any other count; one of 4 or more is reported
layout_sandwich_holes_refused ==
    /\ pc = "holes"
    /\ ~(layer_screw.count >= 4 /\ ValidHoles(layer_screw.count))
    /\ log' = IF layer_screw.count >= 4
              THEN Append(log, "Invalid hole configuration") ELSE log
    /\ pc' = "placed"
    /\ UNCHANGED <<frame, x_holes, y_holes>>
    /\ holes_unchanged

\* lines 649-658: one turn of the loop
place_hole ==
    /\ pc = "placing"
    /\ frame.f < frame.free
    /\ LET n == PlaceHole(frame.x, frame.y, frame._x, frame._y)
       IN  frame' = [frame EXCEPT !._x = n[1], !._y = n[2], !.f = @ + 1]
    /\ UNCHANGED <<pc, log, x_holes, y_holes>>
    /\ holes_unchanged

\* lines 659-660: the loop is over
layout_sandwich_holes_return ==
    /\ pc = "placing"
    /\ frame.f = frame.free
    /\ x_holes' = frame._x
    /\ y_holes' = frame._y
    /\ pc' = "placed"
    /\ UNCHANGED <<frame, log>>
    /\ holes_unchanged

NextHoles ==
    \/ layout_sandwich_holes_enter
    \/ layout_sandwich_holes_refused
    \/ place_hole
    \/ layout_sandwich_holes_return

SpecHoles == InitHoles /\ [][NextHoles]_vars

\* the loop, a turn at a time, ends where LayoutSandwichHoles ends
HolesAgree ==
    pc = "placed"
      => LET s == LayoutSandwichHoles([Self EXCEPT !.x_holes = 0, !.y_holes = 0,
                                                   !.log = << >>])
         IN  /\ x_holes = s.x_holes
             /\ y_holes = s.y_holes
             /\ log = s.log

\* layout_sandwich_holes has laid out the holes of a valid count
HolesPlaced == pc = "placed" /\ ValidHoles(layer_screw.count)

\* C7: layout_sandwich_holes leaves neither axis more than one placement
\* behind the other: x / (x_holes + 1) <= y / y_holes when y_holes > 0 and
\* y / (y_holes + 1) <= x / x_holes when x_holes > 0, x and y being the
\* kerf-extended width and height; 300 by 200 with count 8 gets one free hole
\* on each axis, and a square plate with count 8 splits its free holes evenly
C7_HolesBalanced ==
    HolesPlaced
      => LET x == width + kerf * 2
             y == height + kerf * 2
         IN  /\ 2 * (x_holes + y_holes) = layer_screw.count - 4
             /\ y_holes > 0 => x * y_holes <= y * (x_holes + 1)
             /\ x_holes > 0 => y * x_holes <= x * (y_holes + 1)
             /\ (width = 30000000 /\ height = 20000000 /\ layer_screw.count = 8)
                  => (x_holes = 1 /\ y_holes = 1)
             /\ (width = height /\ layer_screw.count = 8) => x_holes = y_holes

\* the 300 by 200 plate with count 8 has its holes laid out
C7_Witness ==
    /\ HolesPlaced
    /\ width = 30000000
    /\ height = 20000000
    /\ layer_screw.count = 8
    /\ x_holes = 1

\* a free hole is about to be placed while both axes have the same gap
TiedGaps ==
    /\ pc = "placing"
    /\ frame.f < frame.free
    /\ frame.x * (frame._y + 1) = frame.y * (frame._x + 1)

\* C8: whenever the two axes have the same gap length / (count + 1) when a
\* free hole is placed, the hole goes to the x axis
C8_TieGoesToX ==
    [][TiedGaps => (frame'._x = frame._x + 1 /\ frame'._y = frame._y)]_vars

\* C8, amended: on a tie the hole goes to the longer side, to the x axis
\* when x >= y and to the y axis when x < y
C8_TieGoesToLongerSide ==
    [][TiedGaps => IF frame.x >= frame.y
                   THEN frame'._x = frame._x + 1 /\ frame'._y = frame._y
                   ELSE frame'._x = frame._x /\ frame'._y = frame._y + 1]_vars

\* on a plate twice as tall as wide the second free hole met a tie, and went
\* to the y axis as the first did
C8_Witness ==
    /\ pc = "placing"
    /\ frame.y = 2 * frame.x
    /\ frame._x = 0
    /\ frame._y = 2


----------------------------------------------------------------------------
(* Parsing keyboards that carry a configuration row, before the key rows   *)
(* or after them.                                                          *)

\* configuration rows that set sizes
SizeRows ==
    { << >>,
      [key_spacing |-> 2000000],
      [kerf |-> 10000, padding |-> <<500000, 300000>>,
       pcb_padding |-> <<200000, 400000>>] }

\* configuration rows that name a case, a corner, a switch or a stabiliser
\* family; "tray", "square", "kailh" and "plate" are names the code does not
\* know
FamilyRows ==
    { [case_type |-> c] : c \in {"poker", "sandwich", "reinforcing", "tray", ""} }
    \cup { [case_type |-> c, screw |-> [count |-> 4, radius |-> 200000]] :
             c \in {"poker", "sandwich"} }
    \cup { [corner_type |-> c, corner_radius |-> 300000] :
             c \in {"round", "bevel", "square"} }
    \cup { [switch |-> t, stabilizer |-> st] :
             t \in {"alps", "kailh"}, st \in {"costar", "plate"} }

\* a keyboard: a configuration row, then the key rows, or the other way round
ConfigKeyboards ==
    { <<[type |-> "dict", val |-> c]>> \o l :
        c \in SizeRows \cup FamilyRows, l \in BuildLayouts }
    \cup { l \o <<[type |-> "dict", val |-> c]>> :
             c \in SizeRows \cup FamilyRows, l \in BuildLayouts }

InitConfig ==
    /\ pc = "new"
    /\ keyboard_layout \in ConfigKeyboards
    /\ InitFields
    /\ formats = DefaultFormats

NextConfig == parse_layout

SpecConfig == InitConfig /\ [][NextConfig]_vars

\* parse_layout has returned
Parsed == pc = "idle"

\* the configuration row of the keyboard
ConfigRow ==
    LET i == CHOOSE i \in 1..Len(keyboard_layout) : keyboard_layout[i].type = "dict"
    IN  keyboard_layout[i].val

\* every configuration row comes before the first row of keys
ConfigFirst ==
    \A i, j \in 1..Len(keyboard_layout) :
       (keyboard_layout[i].type = "dict" /\ keyboard_layout[j].type = "list") => i < j

RECURSIVE RowY(_)
\* the y offset of a normalized row: the y of its last key that has one
RowY(keys) ==
    IF keys = << >> THEN 0
    ELSE IF Has(keys[Len(keys)], "y") THEN keys[Len(keys)].y
    ELSE RowY(SubSeq(keys, 1, Len(keys) - 1))

RECURSIVE RowsHeight(_, _)
\* the sum over the rows of key_spacing * (1 + the y offset of the row)
RowsHeight(rows, ks) ==
    IF rows = << >> THEN 0
    ELSE ks + (RowY(Head(rows)) * ks) \div 4 + RowsHeight(Tail(rows), ks)

\* C11: after parse_layout, width = key_spacing * (the largest row width in
\* units, the sum of the w and x of the keys of the row) + 2 * (x_pad +
\* x_pcb_pad), height = the sum over the key rows of key_spacing * (1 + the y
\* offset of the row) + 2 * (y_pad + y_pcb_pad), and x_pcb_pad and y_pcb_pad
\* are half the configured pcb_padding
C11_Dimensions ==
    Parsed
      => /\ width = (MaxOf({0} \cup {RowUnits(layout[r]) : r \in 1..Len(layout)})
                       * key_spacing) \div 4 + 2 * (x_pad + x_pcb_pad)
         /\ height = RowsHeight(layout, key_spacing) + 2 * (y_pad + y_pcb_pad)
         /\ Has(ConfigRow, "pcb_padding")
              => /\ 2 * x_pcb_pad = ConfigRow.pcb_padding[1]
                 /\ 2 * y_pcb_pad = ConfigRow.pcb_padding[2]

\* the same, for the keyboards whose configuration row comes first
C11_DimensionsConfigFirst == ConfigFirst => C11_Dimensions


\* C12: for every parsed layout and configuration, inside_width = width -
\* 2 * x_pad - 2 * kerf, inside_height = height - 2 * y_pad - 2 * kerf,
\* horizontal_edge = width / 2 and vertical_edge = height / 2; with kerf 0 and
\* no padding the inside sizes are the outer ones
C12_InsideDimensions ==
    Parsed
      => /\ inside_width = width - 2 * x_pad - 2 * kerf
         /\ inside_height = height - 2 * y_pad - 2 * kerf
         /\ 2 * horizontal_edge = width
         /\ 2 * vertical_edge = height
         /\ (kerf = 0 /\ x_pad = 0 /\ y_pad = 0)
              => (inside_width = width /\ inside_height = height)

\* a keyboard with keys, a kerf and a padding has been parsed
C12_Witness ==
    /\ Parsed
    /\ kerf > 0
    /\ x_pad > 0
    /\ y_pad > 0
    /\ Len(layout) > 0
    /\ inside_width > 0
    /\ inside_width < width


----------------------------------------------------------------------------
(* export: one format at a time.  A serializer writes a file, so it can    *)
(* fail (the directory is read only, the disk is full): it then raises, and *)
(* nothing in export catches what it raises.                               *)

\* lines 1264-1292: the formats, in the order export comes to them
ExportOrder == <<"js", "brp", "stp", "stl", "dxf", "svg", "json">>

\* the format lists a KeyboardCase is made with; none means dxf (line 105)
FormatChoices ==
    {IF fs = {} THEN DefaultFormats ELSE fs :
       fs \in SUBSET {ExportOrder[i] : i \in 1..Len(ExportOrder)}}

\* the keyboards that are exported
ExportKeyboards ==
    { << [type |-> "dict", val |-> [layers |-> [l \in {"switch", "top"} |-> << >>]]],
         [type |-> "list", val |-> <<Plain, Plain>>] >> }

InitExport ==
    /\ pc = "new"
    /\ keyboard_layout \in ExportKeyboards
    /\ InitFields
    /\ formats \in FormatChoices

\* export asks for format number i of ExportOrder
Requested(i, layer) ==
    /\ ExportOrder[i] \in formats
    /\ ExportOrder[i] = "json" => layer = "switch"

\* lines 1244-1261: export(layer) for the layer just built, up to the first
\* format
export_begin ==
    /\ pc = "idle"
    /\ Len(built) > 0
    /\ LET layer == built[Len(built)].layer
       IN  /\ exports' = Put(exports, layer, << >>)
           /\ frame' = [layer |-> layer, i |-> 1, attempted |-> {}]
    /\ plate' = CutThruAll(plate)
    /\ pc' = "export"
    /\ UNCHANGED <<log, config_vars, size_vars, layer_screw, origin, x_off,
                   x_holes, y_holes, built, formats>>

\* what the format steps of export leave alone
export_unchanged ==
    UNCHANGED <<log, config_vars, size_vars, engine_vars, built, formats>>

\* lines 1264-1292: a format that was not asked for is passed over
export_skipped ==
    /\ pc = "export"
    /\ frame.i <= Len(ExportOrder)
    /\ ~Requested(frame.i, frame.layer)
    /\ frame' = [frame EXCEPT !.i = @ + 1]
    /\ UNCHANGED <<pc, exports>>
    /\ export_unchanged

\* lines 1264-1292: the serializer of a requested format writes its file
export_written ==
    /\ pc = "export"
    /\ frame.i <= Len(ExportOrder)
    /\ Requested(frame.i, frame.layer)
    /\ exports' = [exports EXCEPT ![frame.layer] = Append(@, ExportOrder[frame.i])]
    /\ frame' = [frame EXCEPT !.i = @ + 1,
                              !.attempted = @ \cup {ExportOrder[frame.i]}]
    /\ UNCHANGED pc
    /\ export_unchanged

\* lines 1264-1292: the serializer of a requested format raises; export is
\* left at once, with what it raised
export_raised ==
    /\ pc = "export"
    /\ frame.i <= Len(ExportOrder)
    /\ Requested(frame.i, frame.layer)
    /\ frame' = [frame EXCEPT !.attempted = @ \cup {ExportOrder[frame.i]}]
    /\ pc' = "raised"
    /\ UNCHANGED exports
    /\ export_unchanged

\* lines 1294-1297: every format has had its turn, export returns
export_end ==
    /\ pc = "export"
    /\ frame.i > Len(ExportOrder)
    /\ frame' = << >>
    /\ pc' = "idle"
    /\ UNCHANGED exports
    /\ export_unchanged

NextExport ==
    \/ parse_layout
    \/ \E layer \in SwitchLayers : create_switch_layer(layer)
    \/ switch_key
    \/ switch_layer_done
    \/ export_begin
    \/ export_skipped
    \/ export_written
    \/ export_raised
    \/ export_end

SpecExport == InitExport /\ [][NextExport]_vars

\* C13: in export(layer), when the serializer of one requested format fails,
\* the serializers of all the remaining requested formats are still
\* attempted for that layer
C13_OtherFormatsAttempted ==
    pc = "raised"
      => \A i \in 1..Len(ExportOrder) :
            Requested(i, frame.layer) => ExportOrder[i] \in frame.attempted


----------------------------------------------------------------------------
(* cut_switch called on a fresh plate: init_plate(layer), then one call of *)
(* cut_switch with a key of any size and family.                           *)

\* names of a switch family and of a stabiliser family the code does not know
UnknownSwitch == "kailh"

UnknownStab == "plate"

\* the sizes of the keys cut_switch is called with: those of CutShapes, a
\* key 1 wide and 3 tall, a key 3 wide and 2 tall, a key 2 by 2
CallShapes ==
    CutShapes \cup { [w |-> 4, h |-> 12], [w |-> 12, h |-> 8], [w |-> 8, h |-> 8] }

\* keys with a centre offset of their own: on a 6-unit key, whose table
\* entry has one, 5 mm and 0; on a 1-unit and on a 6.25-unit key, which have
\* none; a negative one on a 2-unit key
OffsetKeys ==
    { [w |-> 24, _co |-> 500000], [w |-> 24, _co |-> 0], [w |-> 4, _co |-> 500000],
      [w |-> 25, _co |-> 300000], [w |-> 8, _co |-> -300000] }

\* the keys cut_switch is called with: every size, bare, or with a switch
\* family of its own, or with a stabiliser family of its own
CallKeys ==
    CallShapes
    \cup { s @@ [_t |-> t] : s \in CallShapes, t \in SwitchTypes \cup {UnknownSwitch} }
    \cup { s @@ [_s |-> st] : s \in CallShapes, st \in StabTypes \cup {UnknownStab} }
    \cup OffsetKeys

\* the switch_coord of the calls
CallCoords == {<<0, 0>>, <<1905000, 0>>, <<-952500, 476250>>}

\* per-layer options of a poker case: the reinforcing layer overrides the
\* screw radius, the top layer is inset
PokerLayers ==
    [switch |-> << >>, reinforcing |-> [screw |-> [radius |-> 150000]],
     top |-> [inset |-> TRUE]]

\* configuration rows of the poker cases: a screw radius, with a kerf or
\* without; and one without a screw
PokerConfigs ==
    { [layers |-> PokerLayers, case_type |-> "poker", kerf |-> k,
       screw |-> [radius |-> 250000]] : k \in {0, 10000} }
    \cup { [layers |-> PlainLayers, case_type |-> "poker"] }

\* the layouts of the poker cases: one key; three keys; two rows of two keys
PokerLayouts ==
    { << [type |-> "list", val |-> <<Plain>>] >>,
      << [type |-> "list", val |-> <<Plain, Plain, Plain>>] >>,
      << [type |-> "list", val |-> <<Plain, Plain>>],
         [type |-> "list", val |-> <<Plain, Plain>>] >> }

\* the keyboards the calls are made on: kerf 0 and kerf 0.1 without a case,
\* and the poker cases
CallKeyboards ==
    { << [type |-> "dict", val |-> [layers |-> PlainLayers, kerf |-> k]],
         [type |-> "list", val |-> <<Plain, Plain>>] >> : k \in {0, 10000} }
    \cup { <<[type |-> "dict", val |-> c]>> \o l : c \in PokerConfigs, l \in PokerLayouts }

InitCall ==
    /\ pc = "new"
    /\ keyboard_layout \in CallKeyboards
    /\ InitFields
    /\ formats = DefaultFormats

\* init_plate(layer), called by itself
init_plate(layer) ==
    /\ pc = "idle"
    /\ layer \in DOMAIN layers
    /\ Store(InitPlate(Self, layer))
    /\ frame' = [layer |-> layer]
    /\ pc' = "plate"
    /\ UNCHANGED <<config_vars, size_vars, built, export_vars>>

\* the keys of a second call on the same plate
FollowKeys == { [w |-> 4], [w |-> 8, _s |-> UnknownStab], [w |-> 25] }

\* cut_switch(switch_coord, key, layer), called on the plate of the layer,
\* and once more after it has returned; frame keeps the arguments and what
\* x_off, the log, the cuts and the working point were when it was called
cut_switch(switch_coord, key) ==
    /\ \/ pc = "plate"
       \/ pc = "cut" /\ frame.n = 1 /\ key \in FollowKeys
    /\ Store(CutSwitch(Self, switch_coord, key, frame.layer))
    /\ frame' = [layer |-> frame.layer, key |-> key, switch_coord |-> switch_coord,
                 x_off |-> x_off, log |-> log, cut |-> Len(plate.cut),
                 pos |-> plate.pos,
                 n |-> IF pc = "plate" THEN 1 ELSE 2]
    /\ pc' = "cut"
    /\ UNCHANGED <<config_vars, size_vars, built, export_vars>>

NextCall ==
    \/ parse_layout
    \/ \E layer \in SwitchLayers : init_plate(layer)
    \/ \E c \in CallCoords, key \in CallKeys \cup FollowKeys : cut_switch(c, key)

SpecCall == InitCall /\ [][NextCall]_vars

\* cut_switch has returned
CutReturned == pc = "cut"

\* the polygons the call cut, in order
CallCut == SubSeq(plate.cut, frame.cut + 1, Len(plate.cut))

\* the key of the call names a family the code does not know
UnknownSwitchKey == Has(frame.key, "_t") /\ frame.key._t \notin SwitchTypes

UnknownStabKey == Has(frame.key, "_s") /\ frame.key._s \notin StabTypes

\* C14: when the key of cut_switch names a switch family or a stabiliser
\* family that is not known, cut_switch logs a diagnostic, emits no
\* stabiliser polygon, still cuts a switch body polygon that is not empty,
\* adds the x of switch_coord to x_off and returns
C14_UnknownFamilyDegrades ==
    (CutReturned /\ (UnknownSwitchKey \/ UnknownStabKey))
      => /\ Len(log) > Len(frame.log)
         /\ Len(CallCut) = 1
         /\ CallCut[1].points # << >>
         /\ x_off = frame.x_off + frame.switch_coord[1]

\* the same, for an unknown stabiliser family on a key that takes a
\* stabiliser, on the layers that cut stabilisers
C14_UnknownStabiliserDegrades ==
    (/\ CutReturned
     /\ UnknownStabKey
     /\ frame.layer # "top"
     /\ (frame.key.w >= 8 \/ Get(frame.key, "h", 4) >= 8))
      => C14_UnknownFamilyDegrades


\* the configuration row sets one of the four settings to a value that
\* parse_layout does not know
UnknownSetting ==
    \/ Has(ConfigRow, "case_type")
         /\ ConfigRow.case_type \notin {"poker", "sandwich", "reinforcing", ""}
    \/ Has(ConfigRow, "corner_type") /\ ConfigRow.corner_type \notin {"round", "bevel"}
    \/ Has(ConfigRow, "switch") /\ ConfigRow.switch \notin SwitchTypes
    \/ Has(ConfigRow, "stabilizer") /\ ConfigRow.stabilizer \notin StabTypes

\* after parsing, the switch, the stabiliser and the corner type are known
\* values, and an unknown setting has left a diagnostic
KnownFamiliesAndCorner ==
    /\ switch_type \in SwitchTypes
    /\ stab_type \in StabTypes
    /\ corner_type \in {"round", "bevel", None}
    /\ UnknownSetting => log # << >>

\* C15: parse_layout returns for every configuration; an unknown case_type,
\* corner_type, switch or stabilizer leaves a diagnostic and is replaced by a
\* default: the switch type is one of the five switch families, the
\* stabiliser type one of the five stabiliser families, the corner type is
\* round, bevel or unset, the case type poker, sandwich, reinforcing or unset
C15_UnknownValuesFallBack ==
    Parsed => /\ KnownFamiliesAndCorner
              /\ case_type \in {"poker", "sandwich", "reinforcing", None, ""}

\* the same without the case type
C15_FamiliesAndCornerFallBack == Parsed => KnownFamiliesAndCorner


\* points is the outline of the rectangle of half sides a and b about the
\* working point: four corners, closed by the first one
IsRectangle(points, a, b) ==
    /\ Len(points) = 5
    /\ points[1] = points[5]
    /\ { points[i] : i \in 1..4 } = { <<a, b>>, <<-a, b>>, <<a, -b>>, <<-a, -b>> }
    /\ \A i \in 1..4 : (points[i][1] = points[i + 1][1]) # (points[i][2] = points[i + 1][2])

\* the half sides of the keycap opening of the key of the call: the long
\* side from the key's size, the short side from one key spacing, turned
\* for a vertical key
KeycapOpening ==
    LET w == frame.key.w
        h == Get(frame.key, "h", 4)
        long == (key_spacing * (IF h > 4 THEN h ELSE w)) \div 8 + 50000 - kerf
        short == key_spacing \div 2 + 50000 - kerf
    IN  IF h > w THEN <<short, long>> ELSE <<long, short>>

\* C16: on layer top cut_switch cuts exactly one polygon, the mx rectangle
\* of the size of the keycap, and no stabiliser polygon, for every key size
\* and whatever switch and stabiliser family the key or the keyboard sets
C16_TopCutsOneRectangle ==
    (CutReturned /\ frame.layer = "top")
      => /\ Len(CallCut) = 1
         /\ CallCut[1].kind = "polyline"
         /\ IsRectangle(CallCut[1].points, KeycapOpening[1], KeycapOpening[2])

\* a spacebar with an alps switch has been cut on the top layer
C16_Witness ==
    /\ CutReturned
    /\ frame.layer = "top"
    /\ frame.key.w = 24
    /\ Has(frame.key, "_t") /\ frame.key._t = "alps"
    /\ Len(CallCut) = 1

\* C17: every call of cut_switch that returns has added the x of
\* switch_coord to x_off, once, whatever the layer, the key size and the
\* stabiliser family
C17_XOffAdvancesByX ==
    CutReturned => x_off = frame.x_off + frame.switch_coord[1]

\* a second call on the top layer, made with x_off away from 0, has returned
C17_Witness ==
    /\ CutReturned
    /\ frame.n = 2
    /\ frame.layer = "top"
    /\ frame.x_off # 0
    /\ frame.switch_coord[1] # 0
    /\ x_off = frame.x_off + frame.switch_coord[1]


\* init_plate has run for a layer of a poker case that is not inset
PokerBuild ==
    /\ case_type = "poker"
    /\ pc = "plate"
    /\ ~Opt(frame.layer, "inset", FALSE)

\* the holes and the slots of the plate, in the order they were cut
PlateHoles == SelectSeq(plate.cut, LAMBDA c : c.kind = "hole")

PlateSlots == SelectSeq(plate.cut, LAMBDA c : c.kind = "rect")

\* C18: for a poker case on a layer that is not inset, init_plate cuts six
\* holes, at (-139,9.2), (-117.3,-19.4), (-14.3,0), (48,37.9),
\* (117.55,-19.4) and (139,9.2) from the plate centre, each sized by the
\* layer's screw radius minus kerf, whatever the width and the height of the
\* layout, and leaves the working point at the plate centre
C18_PokerHoles ==
    PokerBuild
      => /\ Len(PlateHoles) = 6
         /\ PlateHoles[1].at = <<-13900000, 920000, 0, 0>>
         /\ PlateHoles[2].at = <<-11730000, -1940000, 0, 0>>
         /\ PlateHoles[3].at = <<-1430000, 0, 0, 0>>
         /\ PlateHoles[4].at = <<4800000, 3790000, 0, 0>>
         /\ PlateHoles[5].at = <<11755000, -1940000, 0, 0>>
         /\ PlateHoles[6].at = <<13900000, 920000, 0, 0>>
         /\ \A i \in 1..6 : PlateHoles[i].diameter = layer_screw.radius - kerf
         /\ plate.pos = <<0, 0, 0, 0>>
         /\ origin = <<0, 0>>

\* the reinforcing layer of a poker case with a screw radius of its own and
\* a kerf, on a layout of two rows, has its holes
C18_Witness ==
    /\ PokerBuild
    /\ frame.layer = "reinforcing"
    /\ layer_screw.radius # screw.radius
    /\ kerf > 0
    /\ Len(layout) = 2
    /\ Len(PlateHoles) = 6

\* the width of the plate of a layout of one key
OneKeyWidth == key_spacing + 2 * (x_pad + x_pcb_pad)

\* the centres of the two slots on a plate of width w
SlotCentres(w) ==
    { <<w \div 2 - 350000 \div 2, 920000, 0, 0>>,
      <<-(w \div 2 - 350000 \div 2), 920000, 0, 0>> }

\* the two slots have the size that only kerf changes
SlotSizes ==
    /\ Len(PlateSlots) = 2
    /\ \A i \in 1..2 : PlateSlots[i].size = <<350000 - kerf, 500000 - kerf>>

\* C19: for a poker case the two edge slots are cut at places and with a
\* size that do not depend on the plate size: a layout of any width has them
\* where a layout of one key has them, and only kerf changes their size
C19_SlotsIndependentOfSize ==
    PokerBuild
      => /\ SlotSizes
         /\ { PlateSlots[i].at : i \in 1..2 } = SlotCentres(OneKeyWidth)

\* C19, amended: the two edge slots are cut against the left and the right
\* edge of the plate, their centres at x = width/2 - 1.75 and
\* x = -(width/2 - 1.75), y = 9.2 from the plate centre, so that each slot
\* ends at the nominal edge; their y and their size (3.5 - kerf by 5 - kerf)
\* do not depend on the plate size
C19_SlotsAtPlateEdges ==
    PokerBuild
      => /\ SlotSizes
         /\ { PlateSlots[i].at : i \in 1..2 } = SlotCentres(width)
         /\ \A i \in 1..2 :
              Abs(PlateSlots[i].at[1]) + 350000 \div 2 = width \div 2

\* a poker plate of three keys, wider than the plate of one key, with a
\* kerf, has its slots
C19_Witness ==
    /\ PokerBuild
    /\ width > OneKeyWidth
    /\ kerf > 0
    /\ Len(PlateSlots) = 2


\* the first call of cut_switch on the plate, on the reinforcing layer
ReinforcingCall == CutReturned /\ frame.n = 1 /\ frame.layer = "reinforcing"

\* what the same call cuts on the switch layer, from the same working point
SwitchLayerCut ==
    CutSwitch([Self EXCEPT !.plate = Box(width, height), !.x_off = frame.x_off,
                           !.log = frame.log],
              frame.switch_coord, frame.key, "switch").plate.cut

\* the interval a polygon covers on an axis (1 for x, 2 for y)
Interval(c, axis) ==
    LET at == { c.at[axis] + c.points[i][axis] : i \in 1..Len(c.points) }
    IN  <<CHOOSE a \in at : \A b \in at : a <= b,
          CHOOSE a \in at : \A b \in at : a >= b>>

\* polygon r covers on each axis the interval polygon c covers
Covers(r, c) ==
    \/ r.points = << >> /\ c.points = << >>
    \/ /\ r.points # << >> /\ c.points # << >>
       /\ \A axis \in 1..2 : /\ Interval(r, axis)[1] <= Interval(c, axis)[1]
                             /\ Interval(r, axis)[2] >= Interval(c, axis)[2]

\* every polygon of the reinforcing call covers the polygon of the switch
\* layer that has its place in the order of the cuts
ReinforcingCovers ==
    /\ Len(CallCut) = Len(SwitchLayerCut)
    /\ \A i \in 1..Len(CallCut) : Covers(CallCut[i], SwitchLayerCut[i])

\* C20: for every switch family, stabiliser family, key size and kerf, each
\* polygon cut_switch cuts on the reinforcing layer contains the polygon it
\* cuts for the same key on the switch layer: on each axis the interval of
\* the reinforcing polygon contains the interval of the switch polygon
C20_ReinforcingContainsSwitch == ReinforcingCall => ReinforcingCovers

\* the stabiliser of the key is the costar stabiliser of a 2-unit key, or
\* the alps stabiliser of a spacebar
ShiftedStabiliser ==
    LET f == KeyFacts(frame.key, frame.layer)
        section == StabSection(f.width, f.height, f.rotate)
    IN  \/ section = "2u" /\ f.stab_type = "costar"
        \/ section = "bar" /\ f.stab_type \in {"alps", "matias"}

\* the same for every key but those two
C20_ReinforcingContainsSwitchElsewhere ==
    (ReinforcingCall /\ ~ShiftedStabiliser) => ReinforcingCovers


----------------------------------------------------------------------------
(* A layer built after other layers against the same layer built first. *)

\* the fields a build works on, as __init__ and parse_layout leave them
FreshSelf ==
    [plate |-> NoPlate, origin |-> <<0, 0>>, x_off |-> 0, x_holes |-> 0,
     y_holes |-> 0, layer_screw |-> DefaultScrew, log |-> << >>]

RECURSIVE KeyLoop(_, _, _, _, _)
\* lines 197-230: the key loop from key k of row r on
KeyLoop(s, l, r, k, layer) ==
    IF r = 0 THEN s
    ELSE LET t == KeyStep(s, l, r, k, layer)
             n == NextKey(r, k)
         IN  KeyLoop(t.self, [prev_width |-> t.prev_width, prev_y_off |-> t.prev_y_off],
                     n[1], n[2], layer)

\* create_switch_layer(layer) as one call, from the state s
CreateSwitchLayer(s, layer) ==
    LET s1 == InitPlate(s, layer)
        s2 == Center(s1, -(width \div 2), -(height \div 2))
        n == FirstKeyFrom(1)
        s3 == KeyLoop(s2, [prev_width |-> None, prev_y_off |-> 0],
                      n, IF n = 0 THEN 0 ELSE 1, layer)
        s4 == Recenter(s3)
    IN  [s4 EXCEPT !.plate = CutThruAll(@)]

\* the plate of the layer when it is the first layer built on the keyboard
BuiltFirst(layer) == CreateSwitchLayer(FreshSelf, layer).plate

\* C21: the geometry built for a layer (plate size, screw holes, key
\* positions and polygons) is the one the layer gets when it is built first:
\* nothing an earlier build left in x_off, origin, x_holes, y_holes or
\* layer_screw changes it
C21_BuildOrderIndependent ==
    \A i \in 1..Len(built) : built[i].plate = BuiltFirst(built[i].layer)

\* the same for the first build of a keyboard
C21_FirstBuildIsFresh ==
    Len(built) >= 1 => built[1].plate = BuiltFirst(built[1].layer)

\* the same for the keyboards whose first row holds a key and whose layers
\* all have a valid screw count
C21_BuildOrderIndependentValid ==
    (/\ Len(layout) > 0 /\ Len(layout[1]) > 0
     /\ \A l \in DOMAIN layers : case_type = "sandwich" => ValidHoles(LayerScrew(l).count))
      => C21_BuildOrderIndependent


----------------------------------------------------------------------------
(* The bottom and the middle layer, and the feet. *)

\* if self.feet: feet are set, and not an empty dict
HasFeet == DOMAIN feet # {}

\* plate.center(x, y).circle(radius).center(-x, -y)
CircleAt(p, x, y, radius) ==
    PlateCenter(Circle(PlateCenter(p, x, y), radius), -x, -y)

\* plate.center(x, y).polyline(points).center(-x, -y)
PolylineAt(p, x, y, points) ==
    PlateCenter(Polyline(PlateCenter(p, x, y), points), -x, -y)

\* KeyboardCase.cut_feet_holes: four holes for the mounting points
CutFeetHoles(s) ==
    LET hole_radius == 150000
        foot_width == feet.width \div 2
        screw_offset == Get(feet, "screw_offset", foot_width - 300000)
        top_foot == Get(feet, "top_foot", <<0, -2500000>>)
        bottom_foot == Get(feet, "bottom_foot", <<0, 2500000>>)
        left_hole == -screw_offset + top_foot[1]
        right_hole == screw_offset + bottom_foot[1]
        p1 == CircleAt(s.plate, left_hole, top_foot[2], hole_radius - kerf)
        p2 == CircleAt(p1, right_hole, top_foot[2], hole_radius - kerf)
        p3 == CircleAt(p2, left_hole, bottom_foot[2], hole_radius - kerf)
        p4 == CircleAt(p3, right_hole, bottom_foot[2], hole_radius - kerf)
    IN  [s EXCEPT !.plate = CutThruAll(p4)]

\* KeyboardCase.draw_feet: the big foot and the two small feet, each with
\* its two holes
DrawFeet(s) ==
    LET hole_radius == 300000
        small_foot_offset == 2700000
        off == Get(feet, "draw_offset", <<0, 0>>)
        foot_width == feet.width \div 2
        left_side == -foot_width + off[1]
        right_side == foot_width + off[1]
        screw_offset == Get(feet, "screw_offset", foot_width - 300000)
        left_hole == -screw_offset + off[1]
        right_hole == screw_offset + off[1]
        small_foot ==
            << <<left_side + 100000, 1000000>>, <<right_side - 100000, 1000000>>,
               <<right_side + 500000, 400000>>, <<right_side + 500000, -400000>>,
               <<right_side - 100000, -1000000>>, <<left_side + 100000, -1000000>>,
               <<left_side - 500000, -400000>>, <<left_side - 500000, 400000>>,
               <<left_side + 100000, 1000000>> >>
        big_foot ==
            << <<left_side, 1500000>>, <<right_side, 1500000>>,
               <<right_side + 800000, 700000>>, <<right_side + 800000, -700000>>,
               <<right_side, -1500000>>, <<left_side, -1500000>>,
               <<left_side - 800000, -700000>>, <<left_side - 800000, 700000>>,
               <<left_side, 1500000>> >>
        r == hole_radius - kerf
        p1 == Polyline(s.plate, big_foot)
        p2 == CircleAt(CircleAt(p1, left_hole, 0, r), right_hole, 0, r)
        p3 == PolylineAt(p2, 0, small_foot_offset, small_foot)
        p4 == CircleAt(CircleAt(p3, left_hole, small_foot_offset, r),
                       right_hole, small_foot_offset, r)
        p5 == PolylineAt(p4, 0, -small_foot_offset, small_foot)
        p6 == CircleAt(CircleAt(p5, left_hole, -small_foot_offset, r),
                       right_hole, -small_foot_offset, r)
    IN  [s EXCEPT !.plate = p6]

\* KeyboardCase.create_bottom_layer as one call
CreateBottomLayer(s, layer) ==
    LET s1 == InitPlate(s, layer)
        s2 == IF HasFeet THEN CutFeetHoles(s1) ELSE s1
    IN  [s2 EXCEPT !.plate = CutThruAll(@)]

\* KeyboardCase.create_middle_layer as one call
CreateMiddleLayer(s, layer) ==
    LET iw == inside_width - kerf * 2
        ih == inside_height - kerf * 2
        s1 == InitPlate(s, layer)
        outline_points ==
            << <<iw \div 2, ih \div 2>>, <<-(iw \div 2), ih \div 2>>,
               <<-(iw \div 2), -(ih \div 2)>>, <<iw \div 2, -(ih \div 2)>>,
               <<iw \div 2, ih \div 2>> >>
        s2 == [s1 EXCEPT !.plate = Polyline(@, outline_points)]
        s3 == IF HasFeet THEN DrawFeet(s2) ELSE s2
    IN  [s3 EXCEPT !.plate = CutThruAll(@)]

\* a build that is one step of the model: the plate is stored and kept
Built(s, layer) ==
    /\ Store(s)
    /\ built' = Append(built, [layer |-> layer, kerf |-> kerf, plate |-> s.plate])
    /\ frame' = << >>
    /\ UNCHANGED <<pc, config_vars, size_vars, export_vars>>

create_bottom_layer(layer) ==
    /\ pc = "idle"
    /\ Len(built) < MaxBuilds
    /\ layer \in DOMAIN layers
    /\ Built(CreateBottomLayer(Self, layer), layer)

create_middle_layer(layer) ==
    /\ pc = "idle"
    /\ Len(built) < MaxBuilds
    /\ layer \in DOMAIN layers
    /\ Built(CreateMiddleLayer(Self, layer), layer)


\* the layers of the keyboards whose layers are all built: the bottom layer
\* overrides the screw radius, the switch layer the screw count and has a
\* hole of its own, the top layer is oversized
BuiltLayers ==
    [bottom |-> [screw |-> [radius |-> 150000]],
     closed |-> << >>,
     switch |-> [screw |-> [count |-> 8], holes |-> << <<500000, 400000, 100000>> >>],
     top |-> [oversize |-> 400000]]

\* their configuration rows: a sandwich case with feet, a kerf and paddings;
\* a poker case with feet that are drawn off centre; no case and no feet;
\* bevelled corners, with a kerf and without
LayerConfigs ==
    { [layers |-> BuiltLayers, case_type |-> "sandwich", kerf |-> 10000,
       screw |-> [count |-> 6, radius |-> 200000],
       padding |-> <<500000, 300000>>, pcb_padding |-> <<200000, 400000>>,
       feet |-> [width |-> 4000000]],
      [layers |-> BuiltLayers, case_type |-> "poker", screw |-> [radius |-> 250000],
       feet |-> [width |-> 4000000, screw_offset |-> 1500000,
                 draw_offset |-> <<100000, 0>>, top_foot |-> <<200000, -2000000>>]],
      [layers |-> BuiltLayers],
      [layers |-> BuiltLayers, corner_type |-> "bevel", corner_radius |-> 300000],
      [layers |-> BuiltLayers, corner_type |-> "bevel", corner_radius |-> 300000,
       kerf |-> 10000] }

\* their layouts: two keys; a 6-unit key, cut off centre, and a key
LayerLayouts ==
    { <<Plain, Plain>>, <<Desc([w |-> 24]), Plain, Plain>> }

LayerKeyboards ==
    { << [type |-> "dict", val |-> c], [type |-> "list", val |-> l] >> :
        c \in LayerConfigs, l \in LayerLayouts }

InitLayers ==
    /\ pc = "new"
    /\ keyboard_layout \in LayerKeyboards
    /\ InitFields
    /\ formats \in {DefaultFormats, {"js", "dxf"}}

\* the layers are built in any order, and what was built last is exported
NextLayers ==
    \/ parse_layout
    \/ create_bottom_layer("bottom")
    \/ create_middle_layer("closed")
    \/ \E layer \in {"switch", "top"} : create_switch_layer(layer)
    \/ switch_key
    \/ switch_layer_done
    \/ export_begin
    \/ export_skipped
    \/ export_written
    \/ export_raised
    \/ export_end

SpecLayers == InitLayers /\ [][NextLayers]_vars


\* the keyboard-level configuration and dimensions
Keyboard ==
    <<width, height, inside_width, inside_height, kerf, x_pad, y_pad, x_pcb_pad,
      y_pcb_pad, screw>>

\* the default screw spec with the layer's own screw override laid over it
ScrewOf(layer) ==
    LET own == IF Has(layers[layer], "screw") THEN layers[layer].screw ELSE << >>
    IN  [count |-> IF Has(own, "count") THEN own.count ELSE screw.count,
         radius |-> IF Has(own, "radius") THEN own.radius ELSE screw.radius]

\* the step starts, continues or ends the build of the layer
BuildStepOf(layer) ==
    \/ pc' = "keys" /\ frame'.layer = layer
    \/ pc = "keys" /\ frame.layer = layer
    \/ Len(built') > Len(built) /\ built'[Len(built')].layer = layer

\* C22: no layer build changes the keyboard-level configuration or
\* dimensions: once parse_layout has run, width, height, inside_width,
\* inside_height, kerf, the paddings and the default screw spec stay as they
\* are through every create_bottom_layer, create_middle_layer and
\* create_switch_layer, and during each build layer_screw is the default
\* screw spec overlaid with only that layer's own screw override
C22_BuildsLeaveKeyboardAlone ==
    [][pc # "new"
         => /\ UNCHANGED Keyboard
            /\ \A layer \in DOMAIN layers :
                 BuildStepOf(layer) => layer_screw' = ScrewOf(layer)]_vars

\* the switch layer, which overrides the screw count, has been built after
\* the bottom layer, which overrides the screw radius
C22_Witness ==
    /\ Len(built) = 2
    /\ built[1].layer = "bottom"
    /\ built[2].layer = "switch"
    /\ case_type = "sandwich"
    /\ layer_screw = [count |-> 8, radius |-> 200000]


\* export is at its format serializers, or has been left by one that raised
Serialising == pc \in {"export", "raised"}

\* C23: in any sequence of layer builds and exports, whenever export hands
\* the plate to a format serializer, every profile drawn on the plate since
\* init_plate (polyline, circle, rect) has been committed by a
\* cut-through-all: no drawn profile is pending
C23_NothingPendingAtExport ==
    Serialising => /\ plate.pending = << >>
                   /\ plate.cut = built[Len(built)].plate.cut

\* the middle layer of a keyboard with feet, with its outline, its three
\* feet and their six holes all cut, is at a serializer
C23_Witness ==
    /\ pc = "export"
    /\ frame.layer = "closed"
    /\ HasFeet
    /\ Len(SelectSeq(plate.cut, LAMBDA c : c.kind = "polyline")) >= 4
    /\ Len(SelectSeq(plate.cut, LAMBDA c : c.kind = "circle")) >= 6
    /\ plate.pending = << >>


\* the displacement of the working point of the plate from the plate centre
WorkingPoint == <<plate.pos[1], plate.pos[2]>>

\* between two operations of a layer build: init_plate and the move to the
\* top left have returned, or a cut_switch has, or the build has
BetweenOperations == pc \in {"keys", "idle"} /\ Len(plate.cut) > 0

\* C24: during a layer build, at every point between operations, origin is
\* the displacement of the plate's working point from the plate centre:
\* every move made on the plate without going through center() has been
\* undone by the operation that made it
C24_OriginIsWorkingPoint ==
    BetweenOperations => /\ origin = WorkingPoint
                         /\ plate.pos[3] = 0
                         /\ plate.pos[4] = 0

\* on a sandwich plate with a hole of its own, the 6-unit key, whose switch
\* is cut off centre, has just been cut, away from the plate centre
C24_Witness ==
    /\ pc = "keys"
    /\ frame.layer = "switch"
    /\ case_type = "sandwich"
    /\ layout[1][1].w = 24
    /\ frame.r = 1 /\ frame.k = 2
    /\ origin # <<0, 0>>
    /\ origin = WorkingPoint


----------------------------------------------------------------------------
(* Rows of tall keys and rows with a y offset. *)

\* the row lists: a key and a tall key; a tall key, a taller key and a key;
\* a row moved down by half a unit; a tall key in a row moved down by a
\* quarter unit; a key and a key that carries a y offset; no key
TallRows ==
    { <<Plain, Desc([h |-> 8]), Plain>>,
      <<Desc([h |-> 8]), Plain, Desc([h |-> 12]), Plain, Plain>>,
      <<Desc([y |-> 2]), Plain, Plain>>,
      <<Desc([y |-> 1, h |-> 8]), Plain, Plain>>,
      <<Plain, Desc([y |-> 2]), Plain>>,
      << >> }

TallLayouts ==
    UNION {[1..m -> {[type |-> "list", val |-> r] : r \in TallRows}] : m \in 1..MaxRows}

RowKeyboards ==
    {<<[type |-> "dict", val |-> c]>> \o l : c \in SizeConfigs, l \in TallLayouts}

InitRows ==
    /\ pc = "new"
    /\ keyboard_layout \in RowKeyboards
    /\ InitFields
    /\ formats = DefaultFormats

NextRows ==
    \/ parse_layout
    \/ create_switch_layer("switch")
    \/ switch_key
    \/ switch_layer_done

SpecRows == InitRows /\ [][NextRows]_vars

\* the y offset of a row, in quarter units: the y of its first key
FirstKeyY(r) == Get(layout[r][1], "y", 0)

RECURSIVE Baseline(_)
\* the baseline of row r: the first row half a key spacing and its own y
\* offset below the padded top edge, every other row one key spacing and
\* its own y offset below the row before
Baseline(r) ==
    IF r = 1
    THEN -(height \div 2) + y_pad + y_pcb_pad + key_spacing \div 2
         + (FirstKeyY(1) * key_spacing) \div 4
    ELSE Baseline(r - 1) + key_spacing + (FirstKeyY(r) * key_spacing) \div 4

\* (h - 1) / 2 key spacings for a key of height h > 1, nothing otherwise
TallDrop(key) ==
    IF key.h > 4 THEN ((key.h - 4) * key_spacing) \div 8 ELSE 0

\* C25: in create_switch_layer, in a layout whose rows each hold a key, a
\* key of height 1 is cut at the baseline y of its row and a key of height
\* h > 1 is cut (h-1)/2 key spacings below it, for any mix of tall and
\* normal keys next to each other; a tall key at the end of a row does not
\* shift the next row, whose baseline is one key spacing plus its first
\* key's own y offset below the baseline of the row before
C25_TallKeysDrop ==
    [][pc = "keys" /\ frame.r # 0 /\ RowsHoldKeys
         => LET key == layout[frame.r][frame.k]
                y == Baseline(frame.r) + TallDrop(key)
                n == Len(plate.cut)
            IN  /\ plate'.pos[2] = y
                /\ Len(plate'.cut) > n
                /\ \A i \in (n + 1)..Len(plate'.cut) : plate'.cut[i].at[2] = y]_vars

\* the first key of a second row has been cut on its baseline after a row
\* that ends with a tall key
C25_Witness ==
    /\ pc = "keys"
    /\ RowsHoldKeys
    /\ frame.r = 2 /\ frame.k = 2
    /\ layout[1][Len(layout[1])].h > 4
    /\ layout[2][1].h = 4
    /\ plate.pos[2] = Baseline(2)


\* the stabilised length of the key of the call, in quarter units: its
\* height when height > width, otherwise its width
StabilisedLength ==
    LET w == frame.key.w
        h == Get(frame.key, "h", 4)
    IN  IF h > w THEN h ELSE w

\* the stabiliser template a stabilised length asks for
TemplateOf(L) == IF L < 8 THEN "none" ELSE IF L < 12 THEN "2u" ELSE "bar"

\* the stabiliser polygons of the template, for the key of the call
TemplatePolygons(section) ==
    LET f == KeyFacts(frame.key, frame.layer)
        d == Dims(f.kerf, f.width, f.height, frame.layer)
        st == StabPolygons(section, f.stab_type, d, f.x, f.width)
    IN  [i \in 1..Len(st.polygons) |-> Turned(st.polygons[i], f.rotate)]

\* the stabiliser polygons the call cut: all but the switch body
CallStabilisers ==
    [i \in 1..(Len(CallCut) - 1) |-> CallCut[i + 1].points]

\* the call was made below the top layer with a stabiliser family that is
\* known
StabiliserCall ==
    /\ CutReturned
    /\ frame.layer # "top"
    /\ KeyFacts(frame.key, frame.layer).stab_type \in StabTypes

\* C26: cut_switch selects the stabiliser template from the stabilised
\* length L of the key (its height when height > width, otherwise its
\* width): no stabiliser polygon for L < 2, the 2-unit template for
\* 2 <= L < 3, the spacebar template for L >= 3, for every width and height
C26_TemplateFromStabilisedLength ==
    StabiliserCall => CallStabilisers = TemplatePolygons(TemplateOf(StabilisedLength))

\* the same for the keys that are not both vertical and 2 units wide or more
C26_TemplateFromLengthOrWidth ==
    (StabiliserCall /\ ~(Get(frame.key, "h", 4) > frame.key.w /\ frame.key.w >= 8))
      => CallStabilisers = TemplatePolygons(TemplateOf(StabilisedLength))


\* the centre of the key of the call: switch_coord from the working point
\* the call started at
KeyCentre ==
    <<frame.pos[1] + frame.switch_coord[1], frame.pos[2] + frame.switch_coord[2],
      frame.pos[3], frame.pos[4]>>

\* the centre offset of the key of the call: its own _co when it has one,
\* otherwise the entry of the table for its stabilised length, 0 without one
CentreOffset ==
    IF Has(frame.key, "_co") THEN frame.key._co
    ELSE IF StabilisedLength >= 8 /\ StabilisedLength \in DOMAIN STABILIZERS
    THEN STABILIZERS[StabilisedLength][2]
    ELSE 0

\* the switch body is cut off the key centre by the offset when it is
\* positive, the stabiliser polygons at the key centre, and the working
\* point is left at the key centre
CutAround(offset) ==
    /\ Len(CallCut) >= 1
    /\ CallCut[1].at = IF offset > 0
                       THEN <<KeyCentre[1] + offset, KeyCentre[2], KeyCentre[3], KeyCentre[4]>>
                       ELSE KeyCentre
    /\ \A i \in 2..Len(CallCut) : CallCut[i].at = KeyCentre
    /\ plate.pos = KeyCentre

\* C27: for a key with a positive centre offset (the table entry of a
\* 6-unit key, or a _co of its own) cut_switch cuts the switch body at the
\* key centre + (offset, 0), then the stabiliser polygon at the key centre,
\* and leaves the working point at the key centre; a _co given on the key
\* takes precedence over the table value; for every other key both polygons
\* are cut at the key centre
C27_BodyOffCentre == CutReturned => CutAround(CentreOffset)

\* the same for the keys whose own _co is not 0
C27_BodyOffCentreNonZero ==
    (CutReturned /\ ~(Has(frame.key, "_co") /\ frame.key._co = 0))
      => CutAround(CentreOffset)


RECURSIVE CountedY(_)
\* the sum of the y offsets parse_layout counted for the rows 1..r, in
\* quarter units
CountedY(r) == IF r = 0 THEN 0 ELSE CountedY(r - 1) + RowY(layout[r])

\* -height/2 + y_pad + y_pcb_pad + key_spacing * (rows before + 1/2 + the y
\* offsets counted up to the row)
CountedBaseline(r) ==
    -(height \div 2) + y_pad + y_pcb_pad + key_spacing * (r - 1) + key_spacing \div 2
    + (CountedY(r) * key_spacing) \div 4

\* the keys of row frame.r are cut on the baseline that the height counted
\* by parse_layout gives the row
CutOnCountedBaseline ==
    LET key == layout[frame.r][frame.k]
    IN  plate'.pos[2] = CountedBaseline(frame.r) + TallDrop(key)

\* C28: the vertical placement done by create_switch_layer agrees with the
\* height computed by parse_layout: for every layout the baseline of row r
\* (counted from 0) is at y = -height/2 + y_pad + y_pcb_pad + key_spacing *
\* (r + 1/2 + the sum of the row y offsets parse_layout counted for the rows
\* 0..r)
C28_PlacementAgreesWithHeight ==
    [][pc = "keys" /\ frame.r # 0 => CutOnCountedBaseline]_vars

\* the same for the layouts whose rows each hold a key and carry a y offset
\* on their first key only
C28_PlacementAgreesFirstKeyY ==
    [][(/\ pc = "keys" /\ frame.r # 0
        /\ RowsHoldKeys
        /\ \A r \in 1..Len(layout) : RowY(layout[r]) = FirstKeyY(r))
         => CutOnCountedBaseline]_vars


----------------------------------------------------------------------------
(* A row list parsed after other rows against the row parsed by itself. *)

\* the loop over the elements of a row that the descriptor flag enters
\* cleared
RowAlone(row) ==
    ParseElements([row_layout |-> << >>, row_width |-> 0, row_height |-> 0,
                   key_desc |-> FALSE, raw |-> << >>], row, 1)

\* C29: the normalized key list and the row width parse_layout produces for
\* a row depend only on the row's own elements, whatever the rows before it
\* held: every row is parsed as if the descriptor flag entered it cleared
C29_RowsParsedAlone ==
    [][pc = "new" =>
        /\ Len(layout') = Len(keyboard_layout)
        /\ \A i \in 1..Len(keyboard_layout) :
              layout'[i] = RowAlone(keyboard_layout[i].val).row_layout
        /\ width' = (key_spacing \div 4)
                    * MaxOf({0} \cup {RowAlone(keyboard_layout[i].val).row_width :
                                     i \in 1..Len(keyboard_layout)})]_vars

\* the same for the layouts where no row but the last ends with a descriptor
C29_RowsParsedAloneFlagCleared ==
    [][(/\ pc = "new"
        /\ \A i \in 1..(Len(keyboard_layout) - 1) :
              LET row == keyboard_layout[i].val
              IN  row = << >> \/ row[Len(row)].type # "dict")
         => /\ Len(layout') = Len(keyboard_layout)
            /\ \A i \in 1..Len(keyboard_layout) :
                  layout'[i] = RowAlone(keyboard_layout[i].val).row_layout]_vars


\* the layer of build i is not inset, on a keyboard with bevelled corners
BevelBuild(i) ==
    /\ corner_type = "bevel"
    /\ corners > 0
    /\ ~Opt(built[i].layer, "inset", FALSE)

\* the first four cuts of the plate of build i are closed triangles drawn
\* from the plate centre, each with its right-angle vertex on a corner of the
\* box of the plate, one at each of the four corners
BevelsOnCorners(i) ==
    LET p == built[i].plate
        vertex(j) == p.cut[j].points[2]
    IN  /\ Len(p.cut) >= 4
        /\ \A j \in 1..4 :
             /\ p.cut[j].kind = "polyline"
             /\ p.cut[j].at = <<0, 0, 0, 0>>
             /\ Len(p.cut[j].points) = 4
             /\ p.cut[j].points[1] = p.cut[j].points[4]
             /\ p.cut[j].points[1][1] = vertex(j)[1]
             /\ p.cut[j].points[3][2] = vertex(j)[2]
             /\ 2 * Abs(vertex(j)[1]) = p.box[1]
             /\ 2 * Abs(vertex(j)[2]) = p.box[2]
        /\ Cardinality({vertex(j) : j \in 1..4}) = 4

\* C30: with corner_type bevel and a corner radius c > 0, on a layer that is
\* not inset, each of the four bevel triangles init_plate draws is a closed
\* polygon whose right-angle vertex lies on a corner of the base plate
\* rectangle init_plate built, for every kerf and every oversize of the layer
C30_BevelsOnPlateCorners ==
    \A i \in 1..Len(built) : BevelBuild(i) => BevelsOnCorners(i)

\* the same for the layers without oversize
C30_BevelsOnPlateCornersNoOversize ==
    \A i \in 1..Len(built) :
       (BevelBuild(i) /\ Opt(built[i].layer, "oversize", 0) = 0) => BevelsOnCorners(i)

====
